---- MODULE Spec2Model ----
(***************************************************************************)
(* Offline memory checking of jolt-core/src/lasso/memory_checking.rs:      *)
(* the multiset hashes, the fingerprint of a memory tuple, the prover's    *)
(* prove_memory_checking and the verifier's verify_memory_checking.        *)
(***************************************************************************)
EXTENDS Integers, Sequences, FiniteSets, Bags, TLC

(***************************************************************************)
(* Bounds of the model.                                                    *)
(***************************************************************************)
\* The scalar field is Z/P for the least prime P >= FieldBound.
FieldBound == 5
\* Longest hash vector handed to the MultisetHashes functions.
MaxLen == 2
\* Bits of the narrow word: i32 and u32 are modelled with HalfWordBits bits,
\* i64 and u64 with twice as many.
HalfWordBits == 2
\* Bytes of the seed of StdRng: [u8; 32] is modelled with SeedLen bytes.
SeedLen == 2
\* Variables of a leaf polynomial: a memory holds N = 2^LogN slots.
LogN == 1
\* Most lookups of one memory in a lookup trace.
MaxOps == 3
\* Most memories of one proof.
MaxMemories == 2

(***************************************************************************)
(* The scalar field F (ark_ff::PrimeField), elements 0..P-1.               *)
(***************************************************************************)
IsPrime(n) == n > 1 /\ \A d \in 2..(n - 1) : n % d # 0

P == CHOOSE p \in FieldBound..(2 * FieldBound) :
        IsPrime(p) /\ \A q \in FieldBound..(p - 1) : ~IsPrime(q)

F == 0..(P - 1)

FAdd(x, y) == (x + y) % P

FSub(x, y) == ((x + P) - y) % P

FMul(x, y) == (x * y) % P

FSquare(x) == FMul(x, x)

FOne == 1 % P

FZero == 0

\* Option<F>: None is the empty sequence, Some(s) the sequence holding s.
None == <<>>

Some(s) == <<s>>

(***************************************************************************)
(* fingerprint: the two implementations of the trait method.               *)
(***************************************************************************)
\* A slip of the fingerprint: the address is left out.
fingerprint_no_address(tuple, gamma, tau) ==
    LET v == tuple[2]
        t == tuple[3]
    IN  FSub(FAdd(FMul(t, FSquare(gamma)), FMul(v, gamma)), tau)

\* tests::product_layer_proof_trivial::TestProver::fingerprint, MemoryTuple = (F, F, F):
\*   t * &gamma.square() + v * gamma + a - tau
fingerprint(tuple, gamma, tau) ==
    LET a == tuple[1]
        v == tuple[2]
        t == tuple[3]
    IN  FSub(FAdd(FAdd(FMul(t, FSquare(gamma)), FMul(v, gamma)), a), tau)

\* A slip of the flagged fingerprint: the flag is added back instead of subtracted.
fingerprint_flags_plus_val(tuple, gamma, tau) ==
    LET a == tuple[1]
        v == tuple[2]
        t == tuple[3]
        flag == tuple[4]
        inner == FSub(FAdd(FAdd(FMul(t, FSquare(gamma)), FMul(v, gamma)), a), tau)
    IN  IF flag # None
        THEN FAdd(FAdd(FMul(flag[1], inner), FOne), flag[1])
        ELSE inner

\* A slip of the flagged fingerprint: the term Fr::one() - val is left out.
fingerprint_flags_scaled(tuple, gamma, tau) ==
    LET a == tuple[1]
        v == tuple[2]
        t == tuple[3]
        flag == tuple[4]
        inner == FSub(FAdd(FAdd(FMul(t, FSquare(gamma)), FMul(v, gamma)), a), tau)
    IN  IF flag # None
        THEN FMul(flag[1], inner)
        ELSE inner

\* tests::product_layer_proof_flags_no_reuse::TestProver::fingerprint,
\* MemoryTuple = (F, F, F, Option<F>):
\*   Some(val) => val * (t * gamma.square() + v * *gamma + a - tau) + Fr::one() - val
\*   None      => t * gamma.square() + v * *gamma + a - tau
fingerprint_flags(tuple, gamma, tau) ==
    LET a == tuple[1]
        v == tuple[2]
        t == tuple[3]
        flag == tuple[4]
        inner == FSub(FAdd(FAdd(FMul(t, FSquare(gamma)), FMul(v, gamma)), a), tau)
    IN  IF flag # None
        THEN FSub(FAdd(FMul(flag[1], inner), FOne), flag[1])
        ELSE inner

(***************************************************************************)
(* MultisetHashes: [read_hashes, write_hashes, init_hashes, final_hashes]. *)
(***************************************************************************)
MultisetHashes(r, w, i, f) ==
    [read_hashes |-> r, write_hashes |-> w, init_hashes |-> i, final_hashes |-> f]

\* A slip of lines 37-39: the assert_eq! on the lengths are missing, the
\* loop of lines 42-52 fails only where an index is out of bounds.
check_multiset_equality_no_length_asserts(h) ==
    LET num_memories == Len(h.read_hashes)
    IN  IF Len(h.init_hashes) = 0 THEN "abort"
        ELSE LET C == num_memories \div Len(h.init_hashes)
             IN  IF C = 0 /\ num_memories # 0 THEN "abort"
                 ELSE IF \A i \in 0..(num_memories - 1) :
                            /\ (i \div C) + 1 <= Len(h.init_hashes)
                            /\ i + 1 <= Len(h.write_hashes)
                            /\ i + 1 <= Len(h.final_hashes)
                            /\ FMul(h.init_hashes[(i \div C) + 1], h.write_hashes[i + 1])
                                 = FMul(h.final_hashes[i + 1], h.read_hashes[i + 1])
                      THEN "ok"
                      ELSE "abort"

\* A slip of check_multiset_equality: the init hash is taken at i, not at i / C.
check_multiset_equality_no_div(h) ==
    LET num_memories == Len(h.read_hashes)
    IN  IF Len(h.final_hashes) # num_memories THEN "abort"
        ELSE IF Len(h.write_hashes) # num_memories THEN "abort"
        ELSE IF Len(h.init_hashes) = 0 THEN "abort"
        ELSE IF num_memories % Len(h.init_hashes) # 0 THEN "abort"
        ELSE IF \A i \in 0..(num_memories - 1) :
                   /\ i + 1 <= Len(h.init_hashes)
                   /\ FMul(h.init_hashes[i + 1], h.write_hashes[i + 1])
                        = FMul(h.final_hashes[i + 1], h.read_hashes[i + 1])
             THEN "ok"
             ELSE "abort"

\* MultisetHashes::check_multiset_equality: "ok" when it returns, "abort" when
\* one of its assert_eq! fails or the remainder by init_hashes.len() = 0 panics.
check_multiset_equality(h) ==
    LET num_memories == Len(h.read_hashes)
    IN  IF Len(h.final_hashes) # num_memories THEN "abort"
        ELSE IF Len(h.write_hashes) # num_memories THEN "abort"
        ELSE IF Len(h.init_hashes) = 0 THEN "abort"
        ELSE IF num_memories % Len(h.init_hashes) # 0 THEN "abort"
        ELSE LET C == num_memories \div Len(h.init_hashes)
             IN  IF \A i \in 0..(num_memories - 1) :
                        FMul(h.init_hashes[(i \div C) + 1], h.write_hashes[i + 1])
                          = FMul(h.final_hashes[i + 1], h.read_hashes[i + 1])
                 THEN "ok"
                 ELSE "abort"

\* check_multiset_equality, lines 36-41: the loop comparing the products is
\* entered when none of the three assert_eq! on the lengths has failed.
products_compared(h) ==
    LET num_memories == Len(h.read_hashes)
    IN  /\ Len(h.final_hashes) = num_memories
        /\ Len(h.write_hashes) = num_memories
        /\ Len(h.init_hashes) # 0
        /\ num_memories % Len(h.init_hashes) = 0

(***************************************************************************)
(* The witness polynomials, as the struct Polys of the tests: per memory m *)
(* a_ops[m], v_ops[m], t_reads[m], t_finals[m], and the shared table       *)
(* v_mems. A polynomial is the sequence of its evaluations.                *)
(***************************************************************************)
N == 2 ^ LogN

\* Fr::from(i as u64)
FromU64(i) == i % P

NumMemories(polys) == Len(polys.a_ops)

\* The tuples compute_leaves fingerprints, for memory m.
ReadTuples(polys, m) ==
    [i \in 1..Len(polys.a_ops[m]) |->
        <<polys.a_ops[m][i], polys.v_ops[m][i], polys.t_reads[m][i]>>]

\* A slip of the write tuples: the read timestamp is not incremented.
WriteTuples_same_timestamp(polys, m) ==
    [i \in 1..Len(polys.a_ops[m]) |->
        <<polys.a_ops[m][i], polys.v_ops[m][i], polys.t_reads[m][i]>>]

WriteTuples(polys, m) ==
    [i \in 1..Len(polys.a_ops[m]) |->
        <<polys.a_ops[m][i], polys.v_ops[m][i], FAdd(polys.t_reads[m][i], FOne)>>]

InitTuples(polys, m) ==
    [i \in 1..Len(polys.v_mems) |-> <<FromU64(i - 1), polys.v_mems[i], FZero>>]

FinalTuples(polys, m) ==
    [i \in 1..Len(polys.v_mems) |-> <<FromU64(i - 1), polys.v_mems[i], polys.t_finals[m][i]>>]

Leaves(tuples, gamma, tau) ==
    [i \in 1..Len(tuples) |-> fingerprint(tuples[i], gamma, tau)]

\* itertools::interleave: alternately one element of each, then the rest of
\* the longer one.
RECURSIVE interleave(_, _)
interleave(xs, ys) ==
    IF xs = <<>> THEN ys
    ELSE <<Head(xs)>> \o interleave(ys, Tail(xs))

\* A slip of compute_leaves: the final leaves take the challenges as (tau, gamma).
compute_leaves_final_swapped(polys, gamma, tau) ==
    LET M == NumMemories(polys)
        read_leaves == [m \in 1..M |-> Leaves(ReadTuples(polys, m), gamma, tau)]
        write_leaves == [m \in 1..M |-> Leaves(WriteTuples(polys, m), gamma, tau)]
        init_leaves == [m \in 1..M |-> Leaves(InitTuples(polys, m), gamma, tau)]
        final_leaves == [m \in 1..M |-> Leaves(FinalTuples(polys, m), tau, gamma)]
    IN  <<interleave(read_leaves, write_leaves), interleave(init_leaves, final_leaves)>>

\* compute_leaves: (interleaved read/write leaves, interleaved init/final leaves),
\* one leaf polynomial per memory and kind.
compute_leaves(polys, gamma, tau) ==
    LET M == NumMemories(polys)
        read_leaves == [m \in 1..M |-> Leaves(ReadTuples(polys, m), gamma, tau)]
        write_leaves == [m \in 1..M |-> Leaves(WriteTuples(polys, m), gamma, tau)]
        init_leaves == [m \in 1..M |-> Leaves(InitTuples(polys, m), gamma, tau)]
        final_leaves == [m \in 1..M |-> Leaves(FinalTuples(polys, m), gamma, tau)]
    IN  <<interleave(read_leaves, write_leaves), interleave(init_leaves, final_leaves)>>

\* GrandProductCircuit::new(leaves).evaluate(): the product of the leaves.
RECURSIVE Product(_)
Product(leaves) ==
    IF leaves = <<>> THEN FOne
    ELSE FMul(Head(leaves), Product(Tail(leaves)))

\* A slip of the default grand products: the circuits share leaves, the k-th
\* hash is the product over the first k leaf vectors.
grand_product_running(leaves) ==
    [circuits |-> leaves,
     hashes |-> [k \in 1..Len(leaves) |->
                    Product([j \in 1..k |-> Product(leaves[j])])]]

\* read_write_grand_product / init_final_grand_product (the defaults): one
\* circuit per leaf vector, and the hash of each, in the order of the input.
grand_product(leaves) ==
    [circuits |-> leaves, hashes |-> [k \in 1..Len(leaves) |-> Product(leaves[k])]]

\* tests::product_layer_proof_flags_no_reuse::TestProver::compute_leaves: the
\* leaves are fingerprints of tuples with flag None.
LeavesFlags(tuples, gamma, tau) ==
    [i \in 1..Len(tuples) |->
        fingerprint_flags(<<tuples[i][1], tuples[i][2], tuples[i][3], None>>, gamma, tau)]

\* A slip of the flagged read_write_grand_product: only the read leaves are toggled.
read_write_grand_product_flags_read_only(polynomials, read_fingerprints, write_fingerprints) ==
    LET num_memories == Len(read_fingerprints)
        toggled(fps, i) ==
            [leaf_index \in 1..Len(polynomials.a_ops[i]) |->
                IF polynomials.flags[i][leaf_index] = FZero THEN FOne ELSE fps[i][leaf_index]]
        reads == [i \in 1..num_memories |-> toggled(read_fingerprints, i)]
    IN  [circuits |-> interleave(reads, write_fingerprints),
         read_hashes |-> [i \in 1..num_memories |-> Product(reads[i])],
         write_hashes |-> [i \in 1..num_memories |-> Product(write_fingerprints[i])]]

\* tests::product_layer_proof_flags_no_reuse::TestProver::read_write_grand_product:
\* where the flag of a lookup is zero its read and its write fingerprint are
\* replaced by one; the hashes are the products of the toggled leaves.
read_write_grand_product_flags(polynomials, read_fingerprints, write_fingerprints) ==
    LET num_memories == Len(read_fingerprints)
        toggled(fps, i) ==
            [leaf_index \in 1..Len(polynomials.a_ops[i]) |->
                IF polynomials.flags[i][leaf_index] = FZero THEN FOne ELSE fps[i][leaf_index]]
        reads == [i \in 1..num_memories |-> toggled(read_fingerprints, i)]
        writes == [i \in 1..num_memories |-> toggled(write_fingerprints, i)]
    IN  [circuits |-> interleave(reads, writes),
         read_hashes |-> [i \in 1..num_memories |-> Product(reads[i])],
         write_hashes |-> [i \in 1..num_memories |-> Product(writes[i])]]

\* A slip of interleave_hashes: the hashes are concatenated by kind.
interleave_hashes_by_kind(multiset_hashes) ==
    <<multiset_hashes.read_hashes \o multiset_hashes.write_hashes,
      multiset_hashes.init_hashes \o multiset_hashes.final_hashes>>

\* A slip of interleave_hashes: the second hash of each pair comes first.
interleave_hashes_swapped(multiset_hashes) ==
    <<interleave(multiset_hashes.write_hashes, multiset_hashes.read_hashes),
      interleave(multiset_hashes.final_hashes, multiset_hashes.init_hashes)>>

\* MemoryCheckingProver::interleave_hashes
interleave_hashes(multiset_hashes) ==
    <<interleave(multiset_hashes.read_hashes, multiset_hashes.write_hashes),
      interleave(multiset_hashes.init_hashes, multiset_hashes.final_hashes)>>

\* A slip of uninterleave_hashes: init_final_hashes must be as long as read_write_hashes.
uninterleave_hashes_same_length(read_write_hashes, init_final_hashes) ==
    LET num_memories == Len(read_write_hashes) \div 2
    IN  IF Len(read_write_hashes) % 2 # 0
        THEN [status |-> "abort", value |-> MultisetHashes(<<>>, <<>>, <<>>, <<>>)]
        ELSE IF Len(init_final_hashes) # 2 * num_memories
        THEN [status |-> "abort", value |-> MultisetHashes(<<>>, <<>>, <<>>, <<>>)]
        ELSE [status |-> "ok",
              value |-> MultisetHashes(
                  [i \in 1..num_memories |-> read_write_hashes[2 * (i - 1) + 1]],
                  [i \in 1..num_memories |-> read_write_hashes[2 * (i - 1) + 2]],
                  [i \in 1..num_memories |-> init_final_hashes[2 * (i - 1) + 1]],
                  [i \in 1..num_memories |-> init_final_hashes[2 * (i - 1) + 2]])]

\* MemoryCheckingProver::uninterleave_hashes: [status, value]; "abort" when the
\* assert_eq! on the length fails or an index is out of bounds.
uninterleave_hashes(read_write_hashes, init_final_hashes) ==
    LET num_memories == Len(read_write_hashes) \div 2
    IN  IF Len(read_write_hashes) % 2 # 0
        THEN [status |-> "abort", value |-> MultisetHashes(<<>>, <<>>, <<>>, <<>>)]
        ELSE IF Len(init_final_hashes) < 2 * num_memories
        THEN [status |-> "abort", value |-> MultisetHashes(<<>>, <<>>, <<>>, <<>>)]
        ELSE [status |-> "ok",
              value |-> MultisetHashes(
                  [i \in 1..num_memories |-> read_write_hashes[2 * (i - 1) + 1]],
                  [i \in 1..num_memories |-> read_write_hashes[2 * (i - 1) + 2]],
                  [i \in 1..num_memories |-> init_final_hashes[2 * (i - 1) + 1]],
                  [i \in 1..num_memories |-> init_final_hashes[2 * (i - 1) + 2]])]

(***************************************************************************)
(* The Fiat-Shamir transcript (ProofTranscript over merlin::Transcript): the*)
(* sequence of the operations applied to it. A challenge is a function of  *)
(* everything absorbed before it.                                          *)
(***************************************************************************)
NewTranscript(seed) == <<[op |-> "new", label |-> "test_transcript", data |-> <<seed>>]>>

append_scalars(transcript, label, scalars) ==
    Append(transcript, [op |-> "append_scalars", label |-> label, data |-> scalars])

append_protocol_name(transcript, name) ==
    Append(transcript, [op |-> "append_protocol_name", label |-> name, data |-> <<>>])

RECURSIVE WeightedSum(_)
WeightedSum(data) ==
    IF data = <<>> THEN 0
    ELSE (WeightedSum(SubSeq(data, 1, Len(data) - 1)) + Len(data) * data[Len(data)]) % P

EntryCode(e) ==
    ((IF e.op = "challenge_scalar" THEN 2 ELSE 1) + Len(e.data) + WeightedSum(e.data)) % P

RECURSIVE TranscriptDigest(_)
TranscriptDigest(transcript) ==
    IF transcript = <<>> THEN 0
    ELSE (3 * TranscriptDigest(SubSeq(transcript, 1, Len(transcript) - 1))
            + EntryCode(transcript[Len(transcript)])) % P

\* challenge_scalar: [transcript, value]
challenge_scalar(transcript, label) ==
    LET next == Append(transcript, [op |-> "challenge_scalar", label |-> label, data |-> <<>>])
    IN  [transcript |-> next, value |-> TranscriptDigest(next)]

\* challenge_vector: n challenges drawn one after the other.
RECURSIVE challenge_vector(_, _, _)
challenge_vector(transcript, label, n) ==
    IF n = 0 THEN [transcript |-> transcript, value |-> <<>>]
    ELSE LET first == challenge_scalar(transcript, label)
             rest == challenge_vector(first.transcript, label, n - 1)
         IN  [transcript |-> rest.transcript, value |-> <<first.value>> \o rest.value]

\* MultisetHashes::append_to_transcript, with write and init exchanged.
append_to_transcript_init_first(h, transcript) ==
    append_scalars(
        append_scalars(
            append_scalars(
                append_scalars(transcript, "Read multiset hashes", h.read_hashes),
                "Init multiset hashes", h.init_hashes),
            "Write multiset hashes", h.write_hashes),
        "Final multiset hashes", h.final_hashes)

\* MultisetHashes::append_to_transcript
append_to_transcript(h, transcript) ==
    append_scalars(
        append_scalars(
            append_scalars(
                append_scalars(transcript, "Read multiset hashes", h.read_hashes),
                "Write multiset hashes", h.write_hashes),
            "Init multiset hashes", h.init_hashes),
        "Final multiset hashes", h.final_hashes)

(***************************************************************************)
(* DensePolynomial: the multilinear extension of 2^k evaluations.          *)
(***************************************************************************)
RECURSIVE Log2(_)
Log2(n) == IF n <= 1 THEN 0 ELSE 1 + Log2(n \div 2)

RECURSIVE evaluate(_, _)
evaluate(poly, r) ==
    IF r = <<>> THEN poly[1]
    ELSE LET half == Len(poly) \div 2
             lo == evaluate(SubSeq(poly, 1, half), Tail(r))
             hi == evaluate(SubSeq(poly, half + 1, Len(poly)), Tail(r))
         IN  FAdd(FMul(FSub(FOne, r[1]), lo), FMul(r[1], hi))

RECURSIVE Flatten(_)
Flatten(seqs) == IF seqs = <<>> THEN <<>> ELSE Head(seqs) \o Flatten(Tail(seqs))

(***************************************************************************)
(* BatchedGrandProductArgument, as the black box of its interface: the     *)
(* argument binds the leaves of every circuit of the batch; prove and      *)
(* verify absorb it and draw the opening point; verify aborts unless the   *)
(* claimed hashes are the products of the leaves, and returns the leaf     *)
(* polynomials' evaluations at the opening point as its claims.            *)
(***************************************************************************)
BatchedGrandProductArgument_prove(circuits, transcript) ==
    LET absorbed == append_scalars(transcript, "grand product argument", Flatten(circuits))
        point == challenge_vector(absorbed, "grand product challenge", Log2(Len(circuits[1])))
    IN  [argument |-> circuits, r |-> point.value, transcript |-> point.transcript]

BatchedGrandProductArgument_verify(argument, claimed_hashes, transcript) ==
    LET absorbed == append_scalars(transcript, "grand product argument", Flatten(argument))
        point == challenge_vector(absorbed, "grand product challenge", Log2(Len(argument[1])))
        sound == /\ Len(argument) = Len(claimed_hashes)
                 /\ \A k \in 1..Len(argument) : Product(argument[k]) = claimed_hashes[k]
    IN  [status |-> IF sound THEN "ok" ELSE "abort",
         claims |-> [k \in 1..Len(argument) |-> evaluate(argument[k], point.value)],
         r |-> point.value,
         transcript |-> point.transcript]

(***************************************************************************)
(* StructuredOpeningProof, as the black box of its interface, over a       *)
(* binding commitment: the commitment stands for the committed polynomials *)
(* and an opening proof verifies exactly when its claimed openings are the *)
(* evaluations of the committed polynomials at the point.                  *)
(***************************************************************************)
\* ReadWriteOpenings::open
ReadWriteOpenings_open(polynomials, r) ==
    [a_ops |-> [m \in 1..NumMemories(polynomials) |-> evaluate(polynomials.a_ops[m], r)],
     v_ops |-> [m \in 1..NumMemories(polynomials) |-> evaluate(polynomials.v_ops[m], r)],
     t_reads |-> [m \in 1..NumMemories(polynomials) |-> evaluate(polynomials.t_reads[m], r)]]

\* InitFinalOpenings::open: the address and the table value are left to the verifier.
InitFinalOpenings_open(polynomials, r) ==
    [a_init_final |-> None,
     v_init_final |-> None,
     t_finals |-> [m \in 1..NumMemories(polynomials) |-> evaluate(polynomials.t_finals[m], r)]]

ReadWriteOpenings_scalars(openings) == openings.a_ops \o openings.v_ops \o openings.t_reads

InitFinalOpenings_scalars(openings) == openings.t_finals

\* prove_openings: [proof, transcript]
ReadWriteOpenings_prove_openings(openings, transcript) ==
    [proof |-> openings,
     transcript |-> append_scalars(transcript, "read/write openings",
                                   ReadWriteOpenings_scalars(openings))]

InitFinalOpenings_prove_openings(openings, transcript) ==
    [proof |-> openings,
     transcript |-> append_scalars(transcript, "init/final openings",
                                   InitFinalOpenings_scalars(openings))]

\* verify_openings: [status, transcript], status "ok" for Ok(()) and "err" for
\* Err(ProofVerifyError).
ReadWriteOpenings_verify_openings(proof, commitments, r, transcript) ==
    [status |-> IF proof = ReadWriteOpenings_open(commitments, r) THEN "ok" ELSE "err",
     transcript |-> append_scalars(transcript, "read/write openings",
                                   ReadWriteOpenings_scalars(proof))]

InitFinalOpenings_verify_openings(proof, commitments, r, transcript) ==
    [status |-> IF proof = InitFinalOpenings_open(commitments, r) THEN "ok" ELSE "err",
     transcript |-> append_scalars(transcript, "init/final openings",
                                   InitFinalOpenings_scalars(proof))]

\* compute_verifier_openings of the init/final openings: the verifier evaluates
\* the identity polynomial and the table itself. (The read/write openings keep
\* the default, which computes nothing.)
InitFinalOpenings_compute_verifier_openings(proof, table, r) ==
    [proof EXCEPT
        !.a_init_final = Some(evaluate([i \in 1..Len(table) |-> FromU64(i - 1)], r)),
        !.v_init_final = Some(evaluate(table, r))]

(***************************************************************************)
(* MemoryCheckingVerifier: the tuples of the openings and check_fingerprints*)
(***************************************************************************)
read_tuples(openings) ==
    [m \in 1..Len(openings.a_ops) |->
        <<openings.a_ops[m], openings.v_ops[m], openings.t_reads[m]>>]

write_tuples(openings) ==
    [m \in 1..Len(openings.a_ops) |->
        <<openings.a_ops[m], openings.v_ops[m], FAdd(openings.t_reads[m], FOne)>>]

init_tuples(openings) ==
    [m \in 1..Len(openings.t_finals) |->
        <<openings.a_init_final[1], openings.v_init_final[1], FZero>>]

final_tuples(openings) ==
    [m \in 1..Len(openings.t_finals) |->
        <<openings.a_init_final[1], openings.v_init_final[1], openings.t_finals[m]>>]

\* zip(claims, fingerprints): the pairs up to the shorter of the two.
ZipAllEqual(claims, fingerprints) ==
    \A k \in 1..Len(claims) : k <= Len(fingerprints) => claims[k] = fingerprints[k]

\* A slip of check_fingerprints: the read/write claims are counted but not compared.
check_fingerprints_no_read_write(claims_read_write, claims_init_final, read_write_openings, init_final_openings, gamma, tau) ==
    LET read_fingerprints == Leaves(read_tuples(read_write_openings), gamma, tau)
        write_fingerprints == Leaves(write_tuples(read_write_openings), gamma, tau)
        init_fingerprints == Leaves(init_tuples(init_final_openings), gamma, tau)
        final_fingerprints == Leaves(final_tuples(init_final_openings), gamma, tau)
    IN  IF Len(read_fingerprints) + Len(write_fingerprints) # Len(claims_read_write)
        THEN "abort"
        ELSE IF Len(init_fingerprints) + Len(final_fingerprints) # Len(claims_init_final)
        THEN "abort"
        ELSE IF ~ZipAllEqual(claims_init_final,
                             interleave(init_fingerprints, final_fingerprints))
        THEN "abort"
        ELSE "ok"

\* MemoryCheckingVerifier::check_fingerprints: "ok" when it returns, "abort" when
\* one of its assert_eq! fails.
check_fingerprints(claims_read_write, claims_init_final, read_write_openings, init_final_openings, gamma, tau) ==
    LET read_fingerprints == Leaves(read_tuples(read_write_openings), gamma, tau)
        write_fingerprints == Leaves(write_tuples(read_write_openings), gamma, tau)
        init_fingerprints == Leaves(init_tuples(init_final_openings), gamma, tau)
        final_fingerprints == Leaves(final_tuples(init_final_openings), gamma, tau)
    IN  IF Len(read_fingerprints) + Len(write_fingerprints) # Len(claims_read_write)
        THEN "abort"
        ELSE IF ~ZipAllEqual(claims_read_write,
                             interleave(read_fingerprints, write_fingerprints))
        THEN "abort"
        ELSE IF Len(init_fingerprints) + Len(final_fingerprints) # Len(claims_init_final)
        THEN "abort"
        ELSE IF ~ZipAllEqual(claims_init_final,
                             interleave(init_fingerprints, final_fingerprints))
        THEN "abort"
        ELSE "ok"

(***************************************************************************)
(* State.                                                                  *)
(***************************************************************************)
VARIABLES
    hashes,     \* the MultisetHashes value check_multiset_equality is called on
    hres,       \* its outcome: "none" before the call, then "ok" or "abort"
    compared,   \* whether the call got to compare the products (line 41)
    flat_in,    \* the two flat root-product lists uninterleave_hashes is called on
    ures,       \* the outcome of uninterleave_hashes: "none", then "ok" or "abort"
    flat_out,   \* what interleave_hashes returned, <<>> before the call
    fp_in,      \* the input of fingerprint: [a, v, t, flag, gamma, tau]
    fp_out,     \* [done, plain, flagged]: what the two fingerprints returned
    flag_in,    \* the input of the flagged read_write_grand_product
    flag_out,   \* [done, read_hashes, write_hashes, ...]: what it returned
    gp_in,      \* [kind, leaves]: the leaf vectors a default grand product is called on
    gp_circuits, \* slot k: the circuit the k-th task of the first par_iter collected
    gp_hashes,  \* slot k: the hash the k-th task of the second par_iter collected
    gp_order,   \* the tasks in the order they completed
    gp_out,     \* [done, circuits, hashes]: what the grand product returned
    col_in,     \* two memory tuples
    col_out,    \* [done, pairs]: the challenges (gamma, tau) their fingerprints agree on
    mul_in,     \* [WORD_SIZE, x, y]: a MULInstruction::<WORD_SIZE>(x, y)
    mul_out,    \* [status, value]: what lookup_entry returned, status "none" before the call
    srs_in,     \* the tau argument of two calls of ZeromorphSRS::setup
    srs_out,    \* [status, srs] for each of the two calls, status "none" before the call
    srs_once,   \* the state of the lazy_static ZEROMORPHSRS
    srs_access, \* for each thread, how its first access to ZEROMORPHSRS ended
    polys,      \* the witness polynomials
    pc,         \* the statement of prove_memory_checking / verify_memory_checking to run next
    prover,     \* the prover's transcript and locals
    proof,      \* the MemoryCheckingProof handed to the verifier
    commitments,\* the commitment handed to the verifier: the polynomials it binds
    attack,     \* how the proof was altered between prover and verifier
    verifier    \* the verifier's transcript, locals and result

hvars == <<hashes, hres, compared, flat_in, ures, flat_out>>

gvars == <<gp_in, gp_circuits, gp_hashes, gp_order, gp_out>>

avars == <<col_in, col_out, mul_in, mul_out, srs_in, srs_out, srs_once, srs_access>>

fvars == <<fp_in, fp_out, flag_in, flag_out, gvars, avars>>

tvars == <<polys>>

pvars == <<pc, prover, proof, commitments, attack, verifier>>

vars == <<hashes, hres, compared, flat_in, ures, flat_out, fp_in, fp_out, flag_in, flag_out, gp_in, gp_circuits, gp_hashes, gp_order, gp_out, col_in, col_out, mul_in, mul_out, srs_in, srs_out, srs_once, srs_access, polys, pc, prover, proof, commitments, attack, verifier>>

(***************************************************************************)
(* Inputs.                                                                 *)
(***************************************************************************)
SeqsUpTo(S, n) == UNION {[1..k -> S] : k \in 0..n}

\* Hash values of both kinds: zero, one and another element.
ReadWriteVals == {0, 1, 2}

InitFinalVals == {1, 2}

IdleHashes == MultisetHashes(<<>>, <<>>, <<>>, <<>>)

IdleFp == [a |-> 0, v |-> 0, t |-> 0, flag |-> None, gamma |-> 0, tau |-> 0]

NoFlat == <<>>

NoLayout == [M |-> 0, T |-> 0, read_write_hashes |-> <<>>, init_final_hashes |-> <<>>]

LayoutIdle == flat_in = NoLayout /\ ures = "none"

HIdle ==
    /\ hashes = IdleHashes
    /\ hres = "none"
    /\ compared = FALSE
    /\ LayoutIdle
    /\ flat_out = NoFlat

NoFp == [done |-> FALSE, plain |-> 0, flagged |-> 0]

NoFlagIn == [polys |-> <<>>, other |-> <<>>, gamma |-> 0, tau |-> 0]

NoFlagOut == [done |-> FALSE]

FlagIdle == flag_in = NoFlagIn /\ flag_out = NoFlagOut

NoGpIn == [kind |-> "none", leaves |-> <<>>]

NoGpOut == [done |-> FALSE]

GpIdle ==
    /\ gp_in = NoGpIn
    /\ gp_circuits = <<>>
    /\ gp_hashes = <<>>
    /\ gp_order = <<>>
    /\ gp_out = NoGpOut

NoColIn == <<>>

NoColOut == [done |-> FALSE]

ColIdle == col_in = NoColIn /\ col_out = NoColOut

NoMulIn == [WORD_SIZE |-> 0, x |-> 0, y |-> 0]

NoMulOut == [status |-> "none", value |-> 0]

MulIdle == mul_in = NoMulIn /\ mul_out = NoMulOut

NoSrsOut == [status |-> "none", srs |-> <<>>]

SrsIdle ==
    /\ srs_in = <<>>
    /\ srs_out = <<>>
    /\ srs_once = "incomplete"
    /\ srs_access = <<>>

AIdle == ColIdle /\ MulIdle /\ SrsIdle

FIdle == fp_in = IdleFp /\ fp_out = NoFp /\ FlagIdle /\ GpIdle /\ AIdle

\* Tables: v_mems[i] = c * i + d; c = 1, d = 0 is the range-check table of the tests.
Tables == {[i \in 1..N |-> (c * (i - 1) + d) % P] : c \in 0..2, d \in 0..2}

EmptyPolys(M, table) ==
    [a_ops |-> [m \in 1..M |-> <<>>], v_ops |-> [m \in 1..M |-> <<>>],
     t_reads |-> [m \in 1..M |-> <<>>], v_mems |-> table,
     t_finals |-> [m \in 1..M |-> [i \in 1..N |-> FZero]]]

IdlePolys == EmptyPolys(0, <<>>)

TIdle == polys = IdlePolys

NoOpeningsRW == [a_ops |-> <<>>, v_ops |-> <<>>, t_reads |-> <<>>]

NoOpeningsIF == [a_init_final |-> None, v_init_final |-> None, t_finals |-> <<>>]

NoProver(seed) ==
    [transcript |-> NewTranscript(seed), gamma |-> 0, tau |-> 0,
     read_write_circuit |-> <<>>, init_final_circuit |-> <<>>,
     read_write_hashes |-> <<>>, init_final_hashes |-> <<>>,
     multiset_hashes |-> IdleHashes,
     read_write_grand_product |-> <<>>, init_final_grand_product |-> <<>>,
     r_read_write |-> <<>>, r_init_final |-> <<>>,
     read_write_openings |-> NoOpeningsRW, steps |-> <<>>]

NoProof ==
    [multiset_hashes |-> IdleHashes,
     read_write_grand_product |-> <<>>, init_final_grand_product |-> <<>>,
     read_write_openings |-> NoOpeningsRW, init_final_openings |-> NoOpeningsIF]

NoResult == [kind |-> "none", at |-> "none"]

NoVerifier(seed) ==
    [transcript |-> NewTranscript(seed), gamma |-> 0, tau |-> 0,
     read_write_hashes |-> <<>>, init_final_hashes |-> <<>>,
     claims_read_write |-> <<>>, claims_init_final |-> <<>>,
     r_read_write |-> <<>>, r_init_final |-> <<>>,
     read_write_openings |-> NoOpeningsRW, init_final_openings |-> NoOpeningsIF,
     steps |-> <<>>, log |-> <<>>, result |-> NoResult]

PIdle ==
    /\ pc = "idle"
    /\ prover = NoProver(0)
    /\ proof = NoProof
    /\ commitments = IdlePolys
    /\ attack = "none"
    /\ verifier = NoVerifier(0)

(***************************************************************************)
(* SpecHashes: check_multiset_equality on every bounded MultisetHashes.    *)
(***************************************************************************)
InitHashes ==
    /\ hashes \in [read_hashes : SeqsUpTo(ReadWriteVals, MaxLen),
                   write_hashes : SeqsUpTo(ReadWriteVals, MaxLen),
                   init_hashes : SeqsUpTo(InitFinalVals, MaxLen),
                   final_hashes : SeqsUpTo(InitFinalVals, MaxLen)]
    /\ hres = "none"
    /\ compared = FALSE
    /\ LayoutIdle
    /\ flat_out = NoFlat
    /\ FIdle
    /\ TIdle
    /\ PIdle

CheckMultisetEquality ==
    /\ hres = "none"
    /\ hres' = check_multiset_equality(hashes)
    /\ compared' = products_compared(hashes)
    /\ UNCHANGED <<hashes, flat_in, ures, flat_out, fvars, tvars, pvars>>

\* interleave_hashes on the same hashes, as line 349 calls it
InterleaveHashes ==
    /\ flat_out = NoFlat
    /\ flat_out' = interleave_hashes(hashes)
    /\ UNCHANGED <<hashes, hres, compared, flat_in, ures, fvars, tvars, pvars>>

NextHashes == CheckMultisetEquality \/ InterleaveHashes

SpecHashes == InitHashes /\ [][NextHashes]_vars

(***************************************************************************)
(* SpecLayout: the prover's uninterleave_hashes (line 197) on the root      *)
(* products of M read, M write, T init and M final circuits, T dividing M, *)
(* then the verifier's interleave_hashes (line 349) on the hashes it made. *)
(***************************************************************************)
Divisors(M) == {T \in 1..M : M % T = 0}

InitLayout ==
    /\ flat_in \in UNION {[M : {M}, T : {T},
                           read_write_hashes : [1..(2 * M) -> ReadWriteVals],
                           init_final_hashes : [1..(T + M) -> InitFinalVals]] :
                          <<M, T>> \in {<<M, T>> \in (1..MaxLen) \X (1..MaxLen) : T \in Divisors(M)}}
    /\ ures = "none"
    /\ hashes = IdleHashes
    /\ hres = "none"
    /\ compared = FALSE
    /\ flat_out = NoFlat
    /\ FIdle
    /\ TIdle
    /\ PIdle

\* line 197
UninterleaveHashes ==
    /\ ures = "none"
    /\ LET u == uninterleave_hashes(flat_in.read_write_hashes, flat_in.init_final_hashes)
       IN  /\ ures' = u.status
           /\ hashes' = u.value
    /\ UNCHANGED <<hres, compared, flat_in, flat_out, fvars, tvars, pvars>>

\* line 349, on the hashes of the proof
InterleaveProofHashes ==
    /\ ures = "ok"
    /\ flat_out = NoFlat
    /\ flat_out' = interleave_hashes(hashes)
    /\ UNCHANGED <<hashes, hres, compared, flat_in, ures, fvars, tvars, pvars>>

NextLayout == UninterleaveHashes \/ InterleaveProofHashes

SpecLayout == InitLayout /\ [][NextLayout]_vars

(***************************************************************************)
(* SpecUninterleave: uninterleave_hashes on two lists of any lengths, with *)
(* no layout declared, then interleave_hashes on what it returned.         *)
(***************************************************************************)
InitUninterleave ==
    /\ flat_in \in [M : {0}, T : {0},
                    read_write_hashes : SeqsUpTo(ReadWriteVals, 2 * MaxLen),
                    init_final_hashes : SeqsUpTo(InitFinalVals, 2 * MaxLen + 1)]
    /\ ures = "none"
    /\ hashes = IdleHashes
    /\ hres = "none"
    /\ compared = FALSE
    /\ flat_out = NoFlat
    /\ FIdle
    /\ TIdle
    /\ PIdle

SpecUninterleave == InitUninterleave /\ [][NextLayout]_vars

(***************************************************************************)
(* SpecFingerprint: the fingerprints on every tuple and pair of challenges.*)
(***************************************************************************)
InitFingerprint ==
    /\ fp_in \in [a : F, v : F, t : F, flag : {None} \cup {Some(s) : s \in F},
                  gamma : F, tau : F]
    /\ fp_out = NoFp
    /\ FlagIdle
    /\ GpIdle
    /\ AIdle
    /\ HIdle
    /\ TIdle
    /\ PIdle

Fingerprint ==
    /\ ~fp_out.done
    /\ fp_out' = [done |-> TRUE,
                  plain |-> fingerprint(<<fp_in.a, fp_in.v, fp_in.t>>, fp_in.gamma, fp_in.tau),
                  flagged |-> fingerprint_flags(<<fp_in.a, fp_in.v, fp_in.t, fp_in.flag>>,
                                                fp_in.gamma, fp_in.tau)]
    /\ UNCHANGED <<fp_in, flag_in, flag_out, gvars, avars, hvars, tvars, pvars>>

NextFingerprint == Fingerprint

SpecFingerprint == InitFingerprint /\ [][NextFingerprint]_vars

(***************************************************************************)
(* SpecTrace: lookups against a table with honest accounting. A lookup of  *)
(* address a reads the table value at a with the number of earlier lookups *)
(* of a as its timestamp and writes it back with that timestamp plus one;  *)
(* the final timestamp of a is the number of lookups of a.                 *)
(***************************************************************************)
InitTrace == polys \in {EmptyPolys(1, table) : table \in Tables} /\ HIdle /\ FIdle /\ PIdle

ApplyLookup(w, m, a) ==
    [w EXCEPT
        !.a_ops[m] = Append(@, FromU64(a)),
        !.v_ops[m] = Append(@, w.v_mems[a + 1]),
        !.t_reads[m] = Append(@, w.t_finals[m][a + 1]),
        !.t_finals[m][a + 1] = FAdd(@, FOne)]

Lookup(m, a) ==
    /\ Len(polys.a_ops[m]) < MaxOps
    /\ polys' = ApplyLookup(polys, m, a)
    /\ UNCHANGED <<hvars, fvars, pvars>>

NextTrace == \E m \in 1..NumMemories(polys), a \in 0..(N - 1) : Lookup(m, a)

SpecTrace == InitTrace /\ [][NextTrace]_vars

(***************************************************************************)
(* Spec: prove_memory_checking on a witness, the proof handed over (as it  *)
(* is, or altered), then verify_memory_checking, statement by statement.   *)
(***************************************************************************)
\* The lookups of one memory: N lookups of the same address (period 1), or of two
\* neighbouring addresses in turn (period 2), as a_ops = [6, 7, 6, 7] of the tests.
AddrPattern(start, period) == [j \in 1..N |-> (start + ((j - 1) % period)) % N]

\* The witness of the lookups pats[m] of every memory m against the table, with
\* honest accounting: a lookup reads the table value with the number of earlier
\* lookups of its address as timestamp; the final timestamp of an address is the
\* number of its lookups.
TraceOf(table, pats) ==
    [a_ops |-> [m \in 1..Len(pats) |-> [j \in 1..Len(pats[m]) |-> FromU64(pats[m][j])]],
     v_ops |-> [m \in 1..Len(pats) |-> [j \in 1..Len(pats[m]) |-> table[pats[m][j] + 1]]],
     t_reads |-> [m \in 1..Len(pats) |-> [j \in 1..Len(pats[m]) |->
                    FromU64(Cardinality({k \in 1..(j - 1) : pats[m][k] = pats[m][j]}))]],
     v_mems |-> table,
     t_finals |-> [m \in 1..Len(pats) |-> [i \in 1..Len(table) |->
                    FromU64(Cardinality({k \in 1..Len(pats[m]) : pats[m][k] = i - 1}))]]]

\* The range-check table of the tests and a table of equal values.
ProtocolTables == {[i \in 1..N |-> FromU64(i - 1)], [i \in 1..N |-> FOne]}

\* The memories of one witness start at the first or the last address and share
\* the period.
HonestWitnesses ==
    UNION {{TraceOf(table, [m \in 1..M |-> AddrPattern(starts[m], period)]) :
                starts \in [1..M -> {0, N - 1}], period \in 1..2, table \in ProtocolTables} :
           M \in 1..MaxMemories}

\* A witness that is not a trace of lookups: a final timestamp or a value read is off.
Corrupt(w, how) ==
    CASE how = "none" -> w
      [] how = "t_final" -> [w EXCEPT !.t_finals[1][1] = FAdd(@, FOne)]
      [] how = "v_op" -> [w EXCEPT !.v_ops[1][1] = FAdd(@, FOne)]

Corruptions == {"none", "t_final", "v_op"}

\* Two states a transcript can start in: the ones whose first challenge, gamma,
\* is zero and one.
Seeds ==
    {seed \in 0..(P - 1) :
        challenge_scalar(NewTranscript(seed), "Memory checking gamma").value \in {FZero, FOne}}

HashAttacks == {"hash_value", "hash_write", "hash_init", "hash_final"}

OpeningAttacks == {"rw_opening", "rw_opening_a", "rw_opening_v", "if_opening"}

Attacks ==
    {"honest", "wrong_seed", "hash_length", "commitment", "gp_argument"}
        \cup HashAttacks \cup OpeningAttacks

Init ==
    /\ polys \in {Corrupt(w, how) : w \in HonestWitnesses, how \in Corruptions}
    /\ pc = "p_gamma"
    /\ prover \in {NoProver(seed) : seed \in Seeds}
    /\ proof = NoProof
    /\ commitments = IdlePolys
    /\ attack = "none"
    /\ verifier = NoVerifier(0)
    /\ HIdle
    /\ FIdle

Step(name, transcript) == [step |-> name, len |-> Len(transcript)]

------------------------------------------------------------------------------
\* prove_grand_products, lines 179-182
P_Gamma ==
    /\ pc = "p_gamma"
    /\ LET c == challenge_scalar(prover.transcript, "Memory checking gamma")
       IN  prover' = [prover EXCEPT !.transcript = c.transcript, !.gamma = c.value,
                                    !.steps = Append(@, Step("gamma", c.transcript))]
    /\ pc' = "p_tau"
    /\ UNCHANGED <<polys, proof, commitments, attack, verifier, hvars, fvars>>

\* lines 183-186
P_Tau ==
    /\ pc = "p_tau"
    /\ LET c == challenge_scalar(prover.transcript, "Memory checking tau")
       IN  prover' = [prover EXCEPT !.transcript = c.transcript, !.tau = c.value,
                                    !.steps = Append(@, Step("tau", c.transcript))]
    /\ pc' = "p_protocol_name"
    /\ UNCHANGED <<polys, proof, commitments, attack, verifier, hvars, fvars>>

\* line 188
P_ProtocolName ==
    /\ pc = "p_protocol_name"
    /\ LET t == append_protocol_name(prover.transcript, "protocol_name")
       IN  prover' = [prover EXCEPT !.transcript = t,
                                    !.steps = Append(@, Step("protocol_name", t))]
    /\ pc' = "p_compute_leaves"
    /\ UNCHANGED <<polys, proof, commitments, attack, verifier, hvars, fvars>>

\* lines 191-195: the leaves, the two batched circuits and their hashes
P_ComputeLeaves ==
    /\ pc = "p_compute_leaves"
    /\ LET leaves == compute_leaves(polys, prover.gamma, prover.tau)
           rw == grand_product(leaves[1])
           if == grand_product(leaves[2])
       IN  prover' = [prover EXCEPT !.read_write_circuit = rw.circuits,
                                    !.read_write_hashes = rw.hashes,
                                    !.init_final_circuit = if.circuits,
                                    !.init_final_hashes = if.hashes]
    /\ pc' = "p_uninterleave"
    /\ UNCHANGED <<polys, proof, commitments, attack, verifier, hvars, fvars>>

\* line 197
P_UninterleaveHashes ==
    /\ pc = "p_uninterleave"
    /\ LET u == uninterleave_hashes(prover.read_write_hashes, prover.init_final_hashes)
       IN  /\ prover' = [prover EXCEPT !.multiset_hashes = u.value]
           /\ pc' = IF u.status = "ok" THEN "p_check" ELSE "p_abort"
    /\ UNCHANGED <<polys, proof, commitments, attack, verifier, hvars, fvars>>

\* A slip of line 198: the prover never checks its own hashes.
P_CheckMultisetEquality_skipped ==
    /\ pc = "p_check"
    /\ pc' = "p_append_hashes"
    /\ UNCHANGED <<polys, prover, proof, commitments, attack, verifier, hvars, fvars>>

\* line 198
P_CheckMultisetEquality ==
    /\ pc = "p_check"
    /\ pc' = IF check_multiset_equality(prover.multiset_hashes) = "ok"
             THEN "p_append_hashes" ELSE "p_abort"
    /\ UNCHANGED <<polys, prover, proof, commitments, attack, verifier, hvars, fvars>>

\* line 199
P_AppendHashes ==
    /\ pc = "p_append_hashes"
    /\ LET t == append_to_transcript(prover.multiset_hashes, prover.transcript)
       IN  prover' = [prover EXCEPT !.transcript = t,
                                    !.steps = Append(@, Step("multiset_hashes", t))]
    /\ pc' = "p_prove_read_write"
    /\ UNCHANGED <<polys, proof, commitments, attack, verifier, hvars, fvars>>

\* lines 201-202
P_ProveReadWrite ==
    /\ pc = "p_prove_read_write"
    /\ LET g == BatchedGrandProductArgument_prove(prover.read_write_circuit, prover.transcript)
       IN  prover' = [prover EXCEPT !.transcript = g.transcript,
                                    !.read_write_grand_product = g.argument,
                                    !.r_read_write = g.r,
                                    !.steps = Append(@, Step("read_write_grand_product",
                                                             g.transcript))]
    /\ pc' = "p_prove_init_final"
    /\ UNCHANGED <<polys, proof, commitments, attack, verifier, hvars, fvars>>

\* lines 203-204
P_ProveInitFinal ==
    /\ pc = "p_prove_init_final"
    /\ LET g == BatchedGrandProductArgument_prove(prover.init_final_circuit, prover.transcript)
       IN  prover' = [prover EXCEPT !.transcript = g.transcript,
                                    !.init_final_grand_product = g.argument,
                                    !.r_init_final = g.r,
                                    !.steps = Append(@, Step("init_final_grand_product",
                                                             g.transcript))]
    /\ pc' = "p_open_read_write"
    /\ UNCHANGED <<polys, proof, commitments, attack, verifier, hvars, fvars>>

\* A slip of lines 138-145: the opening carries a blind drawn from the random tape.
P_OpenReadWrite_blinded ==
    /\ pc = "p_open_read_write"
    /\ \E blind \in {FZero, FOne} :
         LET opened == ReadWriteOpenings_open(polys, prover.r_read_write)
             o == ReadWriteOpenings_prove_openings(
                      [opened EXCEPT !.t_reads[1] = FAdd(@, blind)], prover.transcript)
         IN  prover' = [prover EXCEPT !.transcript = o.transcript,
                                      !.read_write_openings = o.proof,
                                      !.steps = Append(@, Step("read_write_openings",
                                                               o.transcript))]
    /\ pc' = "p_open_init_final"
    /\ UNCHANGED <<polys, proof, commitments, attack, verifier, hvars, fvars>>

\* prove_memory_checking, lines 138-145
P_OpenReadWrite ==
    /\ pc = "p_open_read_write"
    /\ LET o == ReadWriteOpenings_prove_openings(
                    ReadWriteOpenings_open(polys, prover.r_read_write), prover.transcript)
       IN  prover' = [prover EXCEPT !.transcript = o.transcript,
                                    !.read_write_openings = o.proof,
                                    !.steps = Append(@, Step("read_write_openings",
                                                             o.transcript))]
    /\ pc' = "p_open_init_final"
    /\ UNCHANGED <<polys, proof, commitments, attack, verifier, hvars, fvars>>

\* lines 146-162: the second opening proof, and the proof is packaged
P_OpenInitFinal ==
    /\ pc = "p_open_init_final"
    /\ LET o == InitFinalOpenings_prove_openings(
                    InitFinalOpenings_open(polys, prover.r_init_final), prover.transcript)
       IN  /\ prover' = [prover EXCEPT !.transcript = o.transcript,
                                       !.steps = Append(@, Step("init_final_openings",
                                                                o.transcript))]
           /\ proof' = [multiset_hashes |-> prover.multiset_hashes,
                        read_write_grand_product |-> prover.read_write_grand_product,
                        init_final_grand_product |-> prover.init_final_grand_product,
                        read_write_openings |-> prover.read_write_openings,
                        init_final_openings |-> o.proof]
    /\ commitments' = polys
    /\ pc' = "p_done"
    /\ UNCHANGED <<polys, attack, verifier, hvars, fvars>>

------------------------------------------------------------------------------
\* What reaches the verifier: the proof, or the proof with one part altered.
Tampered(pf, how) ==
    CASE how = "hash_value" ->
           [pf EXCEPT !.multiset_hashes.read_hashes[1] = FAdd(@, FOne)]
      [] how = "hash_write" ->
           [pf EXCEPT !.multiset_hashes.write_hashes[Len(pf.multiset_hashes.write_hashes)]
                          = FAdd(@, FOne)]
      [] how = "hash_init" ->
           [pf EXCEPT !.multiset_hashes.init_hashes[1] = FAdd(@, FOne)]
      [] how = "hash_final" ->
           [pf EXCEPT !.multiset_hashes.final_hashes[Len(pf.multiset_hashes.final_hashes)]
                          = FAdd(@, FOne)]
      [] how = "hash_length" ->
           [pf EXCEPT !.multiset_hashes.final_hashes = SubSeq(@, 1, Len(@) - 1)]
      [] how = "rw_opening" ->
           [pf EXCEPT !.read_write_openings.t_reads[1] = FAdd(@, FOne)]
      [] how = "rw_opening_a" ->
           [pf EXCEPT !.read_write_openings.a_ops[Len(pf.read_write_openings.a_ops)]
                          = FAdd(@, FOne)]
      [] how = "rw_opening_v" ->
           [pf EXCEPT !.read_write_openings.v_ops[1] = FAdd(@, FOne)]
      [] how = "if_opening" ->
           [pf EXCEPT !.init_final_openings.t_finals[1] = FAdd(@, FOne)]
      [] how = "commitment" ->
           [pf EXCEPT !.read_write_openings =
                ReadWriteOpenings_open([polys EXCEPT !.t_reads[1][1] = FAdd(@, FOne)],
                                       prover.r_read_write)]
      [] how = "gp_argument" ->
           [pf EXCEPT !.read_write_grand_product[1][1] = FAdd(@, FOne)]
      [] OTHER -> pf

\* verify_memory_checking is called, lines 324-333
Deliver(how) ==
    /\ pc = "p_done"
    /\ attack' = how
    /\ proof' = Tampered(proof, how)
    /\ commitments' = IF how = "commitment"
                      THEN [polys EXCEPT !.t_reads[1][1] = FAdd(@, FOne)]
                      ELSE commitments
    /\ verifier' = NoVerifier(IF how = "wrong_seed"
                              THEN CHOOSE seed \in Seeds : seed # prover.transcript[1].data[1]
                              ELSE prover.transcript[1].data[1])
    /\ pc' = "v_gamma"
    /\ UNCHANGED <<polys, prover, hvars, fvars>>

VerifierReturns(kind, at) ==
    /\ verifier' = [verifier EXCEPT !.result = [kind |-> kind, at |-> at],
                                    !.log = Append(@, at)]
    /\ pc' = "v_done"

\* A slip of lines 335-338: gamma is drawn after the claimed hashes are absorbed.
V_Gamma_after_hashes ==
    /\ pc = "v_gamma"
    /\ LET c == challenge_scalar(append_to_transcript(proof.multiset_hashes,
                                                      verifier.transcript),
                                 "Memory checking gamma")
       IN  verifier' = [verifier EXCEPT !.transcript = c.transcript, !.gamma = c.value,
                                        !.steps = Append(@, Step("gamma", c.transcript)),
                                        !.log = Append(@, "gamma")]
    /\ pc' = "v_tau"
    /\ UNCHANGED <<polys, prover, proof, commitments, attack, hvars, fvars>>

\* lines 335-338
V_Gamma ==
    /\ pc = "v_gamma"
    /\ LET c == challenge_scalar(verifier.transcript, "Memory checking gamma")
       IN  verifier' = [verifier EXCEPT !.transcript = c.transcript, !.gamma = c.value,
                                        !.steps = Append(@, Step("gamma", c.transcript)),
                                        !.log = Append(@, "gamma")]
    /\ pc' = "v_tau"
    /\ UNCHANGED <<polys, prover, proof, commitments, attack, hvars, fvars>>

\* lines 339-342
V_Tau ==
    /\ pc = "v_tau"
    /\ LET c == challenge_scalar(verifier.transcript, "Memory checking tau")
       IN  verifier' = [verifier EXCEPT !.transcript = c.transcript, !.tau = c.value,
                                        !.steps = Append(@, Step("tau", c.transcript)),
                                        !.log = Append(@, "tau")]
    /\ pc' = "v_protocol_name"
    /\ UNCHANGED <<polys, prover, proof, commitments, attack, hvars, fvars>>

\* line 344
V_ProtocolName ==
    /\ pc = "v_protocol_name"
    /\ LET t == append_protocol_name(verifier.transcript, "protocol_name")
       IN  verifier' = [verifier EXCEPT !.transcript = t,
                                        !.steps = Append(@, Step("protocol_name", t)),
                                        !.log = Append(@, "protocol_name")]
    /\ pc' = "v_check"
    /\ UNCHANGED <<polys, prover, proof, commitments, attack, hvars, fvars>>

\* A slip of line 346: the verifier does not check the hashes against the law.
V_CheckMultisetEquality_skipped ==
    /\ pc = "v_check"
    /\ verifier' = [verifier EXCEPT !.log = Append(@, "check_multiset_equality")]
    /\ pc' = "v_append_hashes"
    /\ UNCHANGED <<polys, prover, proof, commitments, attack, hvars, fvars>>

\* line 346
V_CheckMultisetEquality ==
    /\ pc = "v_check"
    /\ IF check_multiset_equality(proof.multiset_hashes) = "ok"
       THEN /\ verifier' = [verifier EXCEPT !.log = Append(@, "check_multiset_equality")]
            /\ pc' = "v_append_hashes"
       ELSE VerifierReturns("abort", "check_multiset_equality")
    /\ UNCHANGED <<polys, prover, proof, commitments, attack, hvars, fvars>>

\* A slip of line 347: the verifier does not absorb the hashes.
V_AppendHashes_skipped ==
    /\ pc = "v_append_hashes"
    /\ verifier' = [verifier EXCEPT
                      !.steps = Append(@, Step("multiset_hashes", verifier.transcript)),
                      !.log = Append(@, "multiset_hashes")]
    /\ pc' = "v_interleave"
    /\ UNCHANGED <<polys, prover, proof, commitments, attack, hvars, fvars>>

\* line 347
V_AppendHashes ==
    /\ pc = "v_append_hashes"
    /\ LET t == append_to_transcript(proof.multiset_hashes, verifier.transcript)
       IN  verifier' = [verifier EXCEPT !.transcript = t,
                                        !.steps = Append(@, Step("multiset_hashes", t)),
                                        !.log = Append(@, "multiset_hashes")]
    /\ pc' = "v_interleave"
    /\ UNCHANGED <<polys, prover, proof, commitments, attack, hvars, fvars>>

\* line 349
V_InterleaveHashes ==
    /\ pc = "v_interleave"
    /\ LET h == interleave_hashes(proof.multiset_hashes)
       IN  verifier' = [verifier EXCEPT !.read_write_hashes = h[1],
                                        !.init_final_hashes = h[2],
                                        !.log = Append(@, "interleave_hashes")]
    /\ pc' = "v_verify_read_write"
    /\ UNCHANGED <<polys, prover, proof, commitments, attack, hvars, fvars>>

\* lines 351-353
V_VerifyReadWrite ==
    /\ pc = "v_verify_read_write"
    /\ LET g == BatchedGrandProductArgument_verify(proof.read_write_grand_product,
                    verifier.read_write_hashes, verifier.transcript)
       IN  IF g.status = "ok"
           THEN /\ verifier' = [verifier EXCEPT
                                  !.transcript = g.transcript,
                                  !.claims_read_write = g.claims,
                                  !.r_read_write = g.r,
                                  !.steps = Append(@, Step("read_write_grand_product",
                                                           g.transcript)),
                                  !.log = Append(@, "read_write_grand_product")]
                /\ pc' = "v_verify_init_final"
           ELSE VerifierReturns("abort", "read_write_grand_product")
    /\ UNCHANGED <<polys, prover, proof, commitments, attack, hvars, fvars>>

\* lines 354-356
V_VerifyInitFinal ==
    /\ pc = "v_verify_init_final"
    /\ LET g == BatchedGrandProductArgument_verify(proof.init_final_grand_product,
                    verifier.init_final_hashes, verifier.transcript)
       IN  IF g.status = "ok"
           THEN /\ verifier' = [verifier EXCEPT
                                  !.transcript = g.transcript,
                                  !.claims_init_final = g.claims,
                                  !.r_init_final = g.r,
                                  !.steps = Append(@, Step("init_final_grand_product",
                                                           g.transcript)),
                                  !.log = Append(@, "init_final_grand_product")]
                /\ pc' = "v_openings_read_write"
           ELSE VerifierReturns("abort", "init_final_grand_product")
    /\ UNCHANGED <<polys, prover, proof, commitments, attack, hvars, fvars>>

\* A slip of lines 358-360: the result of verify_openings is dropped.
V_VerifyOpeningsReadWrite_ignored ==
    /\ pc = "v_openings_read_write"
    /\ LET o == ReadWriteOpenings_verify_openings(proof.read_write_openings, commitments,
                    verifier.r_read_write, verifier.transcript)
       IN  /\ verifier' = [verifier EXCEPT
                             !.transcript = o.transcript,
                             !.steps = Append(@, Step("read_write_openings", o.transcript)),
                             !.log = Append(@, "read_write_openings")]
           /\ pc' = "v_openings_init_final"
    /\ UNCHANGED <<polys, prover, proof, commitments, attack, hvars, fvars>>

\* lines 358-360: verify_openings(...)?
V_VerifyOpeningsReadWrite ==
    /\ pc = "v_openings_read_write"
    /\ LET o == ReadWriteOpenings_verify_openings(proof.read_write_openings, commitments,
                    verifier.r_read_write, verifier.transcript)
       IN  IF o.status = "ok"
           THEN /\ verifier' = [verifier EXCEPT
                                  !.transcript = o.transcript,
                                  !.steps = Append(@, Step("read_write_openings",
                                                           o.transcript)),
                                  !.log = Append(@, "read_write_openings")]
                /\ pc' = "v_openings_init_final"
           ELSE /\ verifier' = [verifier EXCEPT
                                  !.transcript = o.transcript,
                                  !.steps = Append(@, Step("read_write_openings",
                                                           o.transcript)),
                                  !.log = Append(@, "read_write_openings"),
                                  !.result = [kind |-> "err", at |-> "read_write_openings"]]
                /\ pc' = "v_done"
    /\ UNCHANGED <<polys, prover, proof, commitments, attack, hvars, fvars>>

\* lines 361-363: verify_openings(...)?
V_VerifyOpeningsInitFinal ==
    /\ pc = "v_openings_init_final"
    /\ LET o == InitFinalOpenings_verify_openings(proof.init_final_openings, commitments,
                    verifier.r_init_final, verifier.transcript)
       IN  IF o.status = "ok"
           THEN /\ verifier' = [verifier EXCEPT
                                  !.transcript = o.transcript,
                                  !.steps = Append(@, Step("init_final_openings",
                                                           o.transcript)),
                                  !.log = Append(@, "init_final_openings")]
                /\ pc' = "v_compute_openings"
           ELSE /\ verifier' = [verifier EXCEPT
                                  !.transcript = o.transcript,
                                  !.steps = Append(@, Step("init_final_openings",
                                                           o.transcript)),
                                  !.log = Append(@, "init_final_openings"),
                                  !.result = [kind |-> "err", at |-> "init_final_openings"]]
                /\ pc' = "v_done"
    /\ UNCHANGED <<polys, prover, proof, commitments, attack, hvars, fvars>>

\* lines 365-370
V_ComputeVerifierOpenings ==
    /\ pc = "v_compute_openings"
    /\ verifier' = [verifier EXCEPT
                      !.read_write_openings = proof.read_write_openings,
                      !.init_final_openings =
                          InitFinalOpenings_compute_verifier_openings(
                              proof.init_final_openings, commitments.v_mems,
                              verifier.r_init_final),
                      !.log = Append(@, "compute_verifier_openings")]
    /\ pc' = "v_check_fingerprints"
    /\ UNCHANGED <<polys, prover, proof, commitments, attack, hvars, fvars>>

\* lines 372-381: check_fingerprints(...); Ok(())
V_CheckFingerprints ==
    /\ pc = "v_check_fingerprints"
    /\ IF check_fingerprints(verifier.claims_read_write, verifier.claims_init_final,
                             verifier.read_write_openings, verifier.init_final_openings,
                             verifier.gamma, verifier.tau) = "ok"
       THEN VerifierReturns("ok", "check_fingerprints")
       ELSE VerifierReturns("abort", "check_fingerprints")
    /\ UNCHANGED <<polys, prover, proof, commitments, attack, hvars, fvars>>

Next ==
    \/ P_Gamma
    \/ P_Tau
    \/ P_ProtocolName
    \/ P_ComputeLeaves
    \/ P_UninterleaveHashes
    \/ P_CheckMultisetEquality
    \/ P_AppendHashes
    \/ P_ProveReadWrite
    \/ P_ProveInitFinal
    \/ P_OpenReadWrite
    \/ P_OpenInitFinal
    \/ \E how \in Attacks : Deliver(how)
    \/ V_Gamma
    \/ V_Tau
    \/ V_ProtocolName
    \/ V_CheckMultisetEquality
    \/ V_AppendHashes
    \/ V_InterleaveHashes
    \/ V_VerifyReadWrite
    \/ V_VerifyInitFinal
    \/ V_VerifyOpeningsReadWrite
    \/ V_VerifyOpeningsInitFinal
    \/ V_ComputeVerifierOpenings
    \/ V_CheckFingerprints

Spec == Init /\ [][Next]_vars

(***************************************************************************)
(* prove_grand_products and prove_memory_checking as functions of the      *)
(* witness and the transcript they are called with: [status, ...,          *)
(* transcript], status "abort" when an assertion of the prover fails.      *)
(***************************************************************************)
prove_grand_products(polynomials, transcript) ==
    LET gamma == challenge_scalar(transcript, "Memory checking gamma")
        tau == challenge_scalar(gamma.transcript, "Memory checking tau")
        named == append_protocol_name(tau.transcript, "protocol_name")
        leaves == compute_leaves(polynomials, gamma.value, tau.value)
        read_write == grand_product(leaves[1])
        init_final == grand_product(leaves[2])
        u == uninterleave_hashes(read_write.hashes, init_final.hashes)
        absorbed == append_to_transcript(u.value, named)
        rw == BatchedGrandProductArgument_prove(read_write.circuits, absorbed)
        if == BatchedGrandProductArgument_prove(init_final.circuits, rw.transcript)
    IN  [status |-> IF u.status = "ok" /\ check_multiset_equality(u.value) = "ok"
                    THEN "ok" ELSE "abort",
         read_write_grand_product |-> rw.argument,
         init_final_grand_product |-> if.argument,
         multiset_hashes |-> u.value,
         r_read_write |-> rw.r,
         r_init_final |-> if.r,
         transcript |-> if.transcript]

prove_memory_checking(polynomials, transcript) ==
    LET g == prove_grand_products(polynomials, transcript)
        read_write_openings ==
            ReadWriteOpenings_prove_openings(
                ReadWriteOpenings_open(polynomials, g.r_read_write), g.transcript)
        init_final_openings ==
            InitFinalOpenings_prove_openings(
                InitFinalOpenings_open(polynomials, g.r_init_final),
                read_write_openings.transcript)
    IN  [status |-> g.status,
         proof |-> [multiset_hashes |-> g.multiset_hashes,
                    read_write_grand_product |-> g.read_write_grand_product,
                    init_final_grand_product |-> g.init_final_grand_product,
                    read_write_openings |-> read_write_openings.proof,
                    init_final_openings |-> init_final_openings.proof],
         r_read_write |-> g.r_read_write,
         r_init_final |-> g.r_init_final,
         transcript |-> init_final_openings.transcript]

(***************************************************************************)
(* SpecFlags: the flagged read_write_grand_product on witnesses with       *)
(* flags. A lookup whose flag is not zero is accounted for as in TraceOf;  *)
(* a lookup whose flag is zero carries any address, value and timestamp    *)
(* and is not counted in the final timestamps (flags_1 and t_1_finals of   *)
(* the test).                                                              *)
(***************************************************************************)
TraceOfFlags(table, pats, flags, junk) ==
    LET On(m, k) == flags[m][k] # FZero
    IN  [a_ops |-> [m \in 1..Len(pats) |-> [j \in 1..Len(pats[m]) |->
                      IF On(m, j) THEN FromU64(pats[m][j]) ELSE junk[1]]],
         v_ops |-> [m \in 1..Len(pats) |-> [j \in 1..Len(pats[m]) |->
                      IF On(m, j) THEN table[pats[m][j] + 1] ELSE junk[2]]],
         t_reads |-> [m \in 1..Len(pats) |-> [j \in 1..Len(pats[m]) |->
                        IF On(m, j)
                        THEN FromU64(Cardinality({k \in 1..(j - 1) :
                                                    On(m, k) /\ pats[m][k] = pats[m][j]}))
                        ELSE junk[3]]],
         v_mems |-> table,
         t_finals |-> [m \in 1..Len(pats) |-> [i \in 1..Len(table) |->
                         FromU64(Cardinality({k \in 1..Len(pats[m]) :
                                                 On(m, k) /\ pats[m][k] = i - 1}))]],
         flags |-> flags]

\* What a flagged-off lookup carries, in the witness and in the other witness.
Junk == {<<<<0, 0, 0>>, <<1, 2, 3>>>>, <<<<1, 1, 0>>, <<2, 0, 1>>>>}

FlagValues == {FZero, FOne, 2}

InitFlags ==
    /\ flag_in \in
         {[polys |-> TraceOfFlags(table, <<AddrPattern(start, period)>>, <<flags>>, junk[1]),
           other |-> TraceOfFlags(table, <<AddrPattern(start, period)>>, <<flags>>, junk[2]),
           gamma |-> gamma, tau |-> tau] :
             table \in ProtocolTables, start \in {0, N - 1}, period \in 1..2,
             flags \in [1..N -> FlagValues], junk \in Junk, gamma \in F, tau \in F}
    /\ flag_out = NoFlagOut
    /\ fp_in = IdleFp
    /\ fp_out = NoFp
    /\ GpIdle
    /\ AIdle
    /\ HIdle
    /\ TIdle
    /\ PIdle

FlagHashes(w, gamma, tau) ==
    LET M == NumMemories(w)
        read_leaves == [m \in 1..M |-> LeavesFlags(ReadTuples(w, m), gamma, tau)]
        write_leaves == [m \in 1..M |-> LeavesFlags(WriteTuples(w, m), gamma, tau)]
        init_leaves == [m \in 1..M |-> LeavesFlags(InitTuples(w, m), gamma, tau)]
        final_leaves == [m \in 1..M |-> LeavesFlags(FinalTuples(w, m), gamma, tau)]
        rw == read_write_grand_product_flags(w, read_leaves, write_leaves)
    IN  MultisetHashes(rw.read_hashes, rw.write_hashes,
                       [m \in 1..M |-> Product(init_leaves[m])],
                       [m \in 1..M |-> Product(final_leaves[m])])

\* compute_leaves, then the flagged read_write_grand_product and the default
\* init_final_grand_product, on both witnesses
FlaggedGrandProduct ==
    /\ ~flag_out.done
    /\ flag_out' = [done |-> TRUE,
                    hashes |-> FlagHashes(flag_in.polys, flag_in.gamma, flag_in.tau),
                    other |-> FlagHashes(flag_in.other, flag_in.gamma, flag_in.tau)]
    /\ UNCHANGED <<fp_in, fp_out, flag_in, gvars, avars, hvars, tvars, pvars>>

NextFlags == FlaggedGrandProduct

SpecFlags == InitFlags /\ [][NextFlags]_vars

(***************************************************************************)
(* SpecGrandProduct: the default read_write_grand_product and              *)
(* init_final_grand_product as the tasks of their two par_iter: one task   *)
(* per leaf vector builds its circuit, collect() waits for all of them,    *)
(* then one task per circuit evaluates it; collect() puts the result of    *)
(* task k in position k whatever the order the tasks complete in.          *)
(***************************************************************************)
LeafVals == {FZero, 2}

GrandProductKinds == {"read_write", "init_final"}

InitGrandProduct ==
    /\ gp_in \in [kind : GrandProductKinds,
                  leaves : UNION {[1..n -> UNION {[1..len -> LeafVals] : len \in 1..MaxLen}] :
                                     n \in 1..MaxMemories}]
    /\ gp_circuits = [k \in 1..Len(gp_in.leaves) |-> None]
    /\ gp_hashes = [k \in 1..Len(gp_in.leaves) |-> None]
    /\ gp_order = <<>>
    /\ gp_out = NoGpOut
    /\ fp_in = IdleFp
    /\ fp_out = NoFp
    /\ FlagIdle
    /\ AIdle
    /\ HIdle
    /\ TIdle
    /\ PIdle

\* A slip of the second collect(): the hash goes to the first free position.
EvaluateCircuit_completion_order(k) ==
    /\ k \in 1..Len(gp_in.leaves)
    /\ \A j \in 1..Len(gp_circuits) : gp_circuits[j] # None
    /\ ~(<<"evaluate", k>> \in {gp_order[j] : j \in 1..Len(gp_order)})
    /\ LET free == CHOOSE j \in 1..Len(gp_hashes) :
                      gp_hashes[j] = None /\ \A i \in 1..(j - 1) : gp_hashes[i] # None
       IN  gp_hashes' = [gp_hashes EXCEPT ![free] = Some(Product(gp_circuits[k][1]))]
    /\ gp_order' = Append(gp_order, <<"evaluate", k>>)
    /\ UNCHANGED <<gp_in, gp_circuits, gp_out, fp_in, fp_out, flag_in, flag_out, avars, hvars, tvars, pvars>>

\* lines 222-225 (243-246): the task of leaf vector k, GrandProductCircuit::new(&leaves)
NewCircuit(k) ==
    /\ k \in 1..Len(gp_in.leaves)
    /\ gp_circuits[k] = None
    /\ gp_circuits' = [gp_circuits EXCEPT ![k] = Some(gp_in.leaves[k])]
    /\ gp_order' = Append(gp_order, <<"new", k>>)
    /\ UNCHANGED <<gp_in, gp_hashes, gp_out, fp_in, fp_out, flag_in, flag_out, avars, hvars, tvars, pvars>>

\* lines 226-229 (247-250): the task of circuit k, circuit.evaluate(), once the
\* first collect() has returned
EvaluateCircuit(k) ==
    /\ k \in 1..Len(gp_in.leaves)
    /\ \A j \in 1..Len(gp_circuits) : gp_circuits[j] # None
    /\ gp_hashes[k] = None
    /\ gp_hashes' = [gp_hashes EXCEPT ![k] = Some(Product(gp_circuits[k][1]))]
    /\ gp_order' = Append(gp_order, <<"evaluate", k>>)
    /\ UNCHANGED <<gp_in, gp_circuits, gp_out, fp_in, fp_out, flag_in, flag_out, avars, hvars, tvars, pvars>>

\* lines 231-234 (252-255): BatchedGrandProductCircuit::new_batch(circuits) and
\* the hashes are returned
NewBatch ==
    /\ ~gp_out.done
    /\ gp_in # NoGpIn
    /\ \A j \in 1..Len(gp_hashes) : gp_hashes[j] # None
    /\ gp_out' = [done |-> TRUE,
                  circuits |-> [k \in 1..Len(gp_circuits) |-> gp_circuits[k][1]],
                  hashes |-> [k \in 1..Len(gp_hashes) |-> gp_hashes[k][1]]]
    /\ UNCHANGED <<gp_in, gp_circuits, gp_hashes, gp_order, fp_in, fp_out, flag_in, flag_out, avars, hvars, tvars, pvars>>

NextGrandProduct ==
    \/ \E k \in 1..MaxMemories : NewCircuit(k)
    \/ \E k \in 1..MaxMemories : EvaluateCircuit(k)
    \/ NewBatch

SpecGrandProduct == InitGrandProduct /\ [][NextGrandProduct]_vars

(***************************************************************************)
(* SpecCollisions: the fingerprints of two memory tuples under every pair  *)
(* of challenges.                                                          *)
(***************************************************************************)
InitCollisions ==
    /\ col_in \in [1..2 -> F \X F \X F]
    /\ col_out = NoColOut
    /\ MulIdle
    /\ SrsIdle
    /\ fp_in = IdleFp
    /\ fp_out = NoFp
    /\ FlagIdle
    /\ GpIdle
    /\ HIdle
    /\ TIdle
    /\ PIdle

FingerprintBoth ==
    /\ ~col_out.done
    /\ col_out' = [done |-> TRUE,
                   pairs |-> {c \in F \X F :
                                 fingerprint(col_in[1], c[1], c[2])
                                   = fingerprint(col_in[2], c[1], c[2])}]
    /\ UNCHANGED <<col_in, mul_in, mul_out, srs_in, srs_out, srs_once, srs_access, fp_in, fp_out, flag_in, flag_out, gvars, hvars, tvars, pvars>>

NextCollisions == FingerprintBoth

SpecCollisions == InitCollisions /\ [][NextCollisions]_vars

(***************************************************************************)
(* SpecMul: MULInstruction::<WORD_SIZE>(x, y).lookup_entry() of            *)
(* jolt/instruction/mul.rs. The integer types keep their behaviour with    *)
(* fewer bits: u32 and i32 have Bits32 bits, u64 and i64 have Bits64.      *)
(***************************************************************************)
RECURSIVE Pow2(_)
Pow2(n) == IF n = 0 THEN 1 ELSE 2 * Pow2(n - 1)

Bits32 == HalfWordBits

Bits64 == 2 * HalfWordBits

\* `as i32`, `as i64`: the low bits, read in two's complement.
as_signed(x, bits) ==
    LET low == x % Pow2(bits)
    IN  IF low >= Pow2(bits - 1) THEN low - Pow2(bits) ELSE low

\* `as u32`, `as u64`: the low bits of the two's complement of x; from a
\* narrower signed type the sign is extended, from an unsigned one zeros are.
as_unsigned(x, bits) == x % Pow2(bits)

\* i32::wrapping_mul, i64::wrapping_mul
wrapping_mul(x, y, bits) == as_signed(x * y, bits)

\* A slip of line 59: `as u64` without `as u32`, the sign of the i32 is extended.
lookup_entry_sign_extended(WORD_SIZE, self0, self1) ==
    IF WORD_SIZE = 32
    THEN LET x == as_signed(self0, Bits32)
             y == as_signed(self1, Bits32)
         IN  [status |-> "ok",
              value |-> as_unsigned(wrapping_mul(x, y, Bits32), Bits64)]
    ELSE IF WORD_SIZE = 64
    THEN LET x == as_signed(self0, Bits64)
             y == as_signed(self1, Bits64)
         IN  [status |-> "ok", value |-> as_unsigned(wrapping_mul(x, y, Bits64), Bits64)]
    ELSE [status |-> "abort", value |-> 0]

\* MULInstruction::lookup_entry, lines 55-67: [status, value], "abort" for the panic!
lookup_entry(WORD_SIZE, self0, self1) ==
    IF WORD_SIZE = 32
    THEN LET x == as_signed(self0, Bits32)
             y == as_signed(self1, Bits32)
         IN  [status |-> "ok",
              value |-> as_unsigned(as_unsigned(wrapping_mul(x, y, Bits32), Bits32), Bits64)]
    ELSE IF WORD_SIZE = 64
    THEN LET x == as_signed(self0, Bits64)
             y == as_signed(self1, Bits64)
         IN  [status |-> "ok", value |-> as_unsigned(wrapping_mul(x, y, Bits64), Bits64)]
    ELSE [status |-> "abort", value |-> 0]

WordSizes == {8, 16, 32, 64}

U64 == 0..(Pow2(Bits64) - 1)

InitMul ==
    /\ mul_in \in [WORD_SIZE : WordSizes, x : U64, y : U64]
    /\ mul_out = NoMulOut
    /\ ColIdle
    /\ SrsIdle
    /\ fp_in = IdleFp
    /\ fp_out = NoFp
    /\ FlagIdle
    /\ GpIdle
    /\ HIdle
    /\ TIdle
    /\ PIdle

LookupEntry ==
    /\ mul_out.status = "none"
    /\ mul_out' = lookup_entry(mul_in.WORD_SIZE, mul_in.x, mul_in.y)
    /\ UNCHANGED <<mul_in, col_in, col_out, srs_in, srs_out, srs_once, srs_access, fp_in, fp_out, flag_in, flag_out, gvars, hvars, tvars, pvars>>

NextMul == LookupEntry

SpecMul == InitMul /\ [][NextMul]_vars

(***************************************************************************)
(* SpecSRS: ZeromorphSRS::setup of subprotocols/zeromorph/data_structures  *)
(* called with two arguments, and the lazy_static ZEROMORPHSRS accessed by *)
(* the threads of the process. A group element is modelled by its          *)
(* discrete logarithm, the seed [u8; 32] by SeedLen bytes.                 *)
(***************************************************************************)
Bytes == {0, 1}

\* let N_MAX = 250, scaled
N_MAX == MaxLen + 1

Threads == 1..2

\* lines 54-56: the first bytes of tau, zero-padded
seed_bytes(tau) == [i \in 1..SeedLen |-> IF i <= Len(tau) THEN tau[i] ELSE 0]

\* P::ScalarField::rand(&mut StdRng::from_seed(bytes)): a scalar that is a
\* function of the seed.
RECURSIVE ScalarRand(_)
ScalarRand(bytes) ==
    IF bytes = <<>> THEN FOne
    ELSE FAdd(FMul(2, ScalarRand(Tail(bytes))), Head(bytes))

\* compute_g_powers: generator, generator * tau, generator * tau^2, ...
RECURSIVE compute_g_powers(_, _)
compute_g_powers(tau, n) ==
    IF n = 1 THEN <<FOne>>
    ELSE LET shorter == compute_g_powers(tau, n - 1)
         IN  Append(shorter, FMul(shorter[n - 1], tau))

\* Lines 46-49 taken out of their comment: without a seed, the default SRS.
setup_default_without_seed(tau) ==
    IF tau = None
    THEN [status |-> "ok",
          srs |-> [g1 |-> FZero, g2 |-> FZero, tau_g1 |-> FZero, tau_g2 |-> FZero,
                   g1_powers |-> <<>>, g2_powers |-> <<>>]]
    ELSE LET bytes == seed_bytes(tau[1])
             scalar == ScalarRand(bytes)
             g1_powers == compute_g_powers(scalar, N_MAX)
             g2_powers == compute_g_powers(scalar, N_MAX)
         IN  [status |-> "ok",
              srs |-> [g1 |-> FOne, g2 |-> FOne,
                       tau_g1 |-> g1_powers[1], tau_g2 |-> g2_powers[1],
                       g1_powers |-> g1_powers, g2_powers |-> g2_powers]]

\* ZeromorphSRS::setup, lines 43-63: [status, srs]; tau.unwrap() of line 55
\* panics on None.
setup(tau) ==
    IF tau = None
    THEN [status |-> "abort", srs |-> <<>>]
    ELSE LET bytes == seed_bytes(tau[1])
             scalar == ScalarRand(bytes)
             g1_powers == compute_g_powers(scalar, N_MAX)
             g2_powers == compute_g_powers(scalar, N_MAX)
         IN  [status |-> "ok",
              srs |-> [g1 |-> FOne, g2 |-> FOne,
                       tau_g1 |-> g1_powers[1], tau_g2 |-> g2_powers[1],
                       g1_powers |-> g1_powers, g2_powers |-> g2_powers]]

InitSRS ==
    /\ srs_in \in [1..2 -> {None} \cup {Some(seed) : seed \in SeqsUpTo(Bytes, SeedLen + 1)}]
    /\ srs_out = [i \in 1..2 |-> NoSrsOut]
    /\ srs_once = "incomplete"
    /\ srs_access = [t \in Threads |-> "none"]
    /\ ColIdle
    /\ MulIdle
    /\ fp_in = IdleFp
    /\ fp_out = NoFp
    /\ FlagIdle
    /\ GpIdle
    /\ HIdle
    /\ TIdle
    /\ PIdle

\* ZeromorphSRS::setup(tau) is called
Setup(i) ==
    /\ srs_out[i].status = "none"
    /\ srs_out' = [srs_out EXCEPT ![i] = setup(srs_in[i])]
    /\ UNCHANGED <<srs_in, srs_once, srs_access, col_in, col_out, mul_in, mul_out, fp_in, fp_out, flag_in, flag_out, gvars, hvars, tvars, pvars>>

\* lines 13-16: the first access of a thread to ZEROMORPHSRS. The first of
\* them runs the initialiser under the Once of lazy_static; an initialiser
\* that panics leaves the Once poisoned, and every later access panics.
FirstAccess(t) ==
    /\ srs_access[t] = "none"
    /\ IF srs_once = "incomplete"
       THEN LET r == setup(None)
            IN  /\ srs_once' = IF r.status = "ok" THEN "complete" ELSE "poisoned"
                /\ srs_access' = [srs_access EXCEPT ![t] = r.status]
       ELSE /\ srs_once' = srs_once
            /\ srs_access' = [srs_access EXCEPT
                                 ![t] = IF srs_once = "complete" THEN "ok" ELSE "abort"]
    /\ UNCHANGED <<srs_in, srs_out, col_in, col_out, mul_in, mul_out, fp_in, fp_out, flag_in, flag_out, gvars, hvars, tvars, pvars>>

NextSRS ==
    \/ \E i \in 1..2 : Setup(i)
    \/ \E t \in Threads : FirstAccess(t)

SpecSRS == InitSRS /\ [][NextSRS]_vars

(***************************************************************************)
(* C1: check_multiset_equality on hashes of M = len(read_hashes) memories  *)
(* with C = M / len(init_hashes) memories per table returns without        *)
(* aborting exactly when init_hashes[i/C] * write_hashes[i] ==             *)
(* final_hashes[i] * read_hashes[i] for every memory i; one i violating    *)
(* the equation is enough to abort.                                        *)
(***************************************************************************)
WellFormedHashes(h) ==
    /\ Len(h.write_hashes) = Len(h.read_hashes)
    /\ Len(h.final_hashes) = Len(h.read_hashes)
    /\ Len(h.init_hashes) > 0
    /\ Len(h.read_hashes) % Len(h.init_hashes) = 0

LawAt(h, i) ==
    LET C == Len(h.read_hashes) \div Len(h.init_hashes)
    IN  (h.init_hashes[(i \div C) + 1] * h.write_hashes[i + 1]) % P
          = (h.final_hashes[i + 1] * h.read_hashes[i + 1]) % P

C1_CheckIffLaw ==
    (hres # "none" /\ WellFormedHashes(hashes)) =>
        (hres = "ok" <=> \A i \in 0..(Len(hashes.read_hashes) - 1) : LawAt(hashes, i))

\* Two memories sharing one table (C = 2), exactly one of them violating the law:
\* the call aborted.
C1_Witness ==
    /\ hres = "abort"
    /\ WellFormedHashes(hashes)
    /\ Len(hashes.read_hashes) = 2
    /\ Len(hashes.init_hashes) = 1
    /\ LawAt(hashes, 0)
    /\ ~LawAt(hashes, 1)

(***************************************************************************)
(* C2: for every table and every sequence of lookups with honest           *)
(* accounting, the multiset of init and write tuples equals the multiset   *)
(* of read and final tuples, and so init * write == final * read for the   *)
(* products of their fingerprints, for every memory and every pair of      *)
(* challenges (gamma, tau).                                                *)
(***************************************************************************)
BagOfSeq(s) ==
    [x \in {s[i] : i \in DOMAIN s} |-> Cardinality({i \in DOMAIN s : s[i] = x})]

C2_MultisetInvariant ==
    \A m \in 1..NumMemories(polys) :
        /\ BagOfSeq(InitTuples(polys, m)) (+) BagOfSeq(WriteTuples(polys, m))
             = BagOfSeq(ReadTuples(polys, m)) (+) BagOfSeq(FinalTuples(polys, m))
        /\ \A gamma \in F, tau \in F :
             LET leaves == compute_leaves(polys, gamma, tau)
                 rw == grand_product(leaves[1]).hashes
                 if == grand_product(leaves[2]).hashes
             IN  (if[2 * m - 1] * rw[2 * m]) % P = (if[2 * m] * rw[2 * m - 1]) % P

\* Three lookups, two of them of the same address: the second one reads
\* timestamp 1 and the final timestamp of that address is 2.
C2_Witness ==
    /\ NumMemories(polys) = 1
    /\ Len(polys.a_ops[1]) = 3
    /\ polys.a_ops[1][1] = polys.a_ops[1][3]
    /\ polys.a_ops[1][2] # polys.a_ops[1][1]
    /\ polys.t_reads[1] = <<0, 0, 1>>
    /\ \E i \in 1..N : polys.t_finals[1][i] = 2

(***************************************************************************)
(* C3: for a proof as prove_memory_checking made it, verified from a       *)
(* transcript in the state the prover started from, verification succeeds  *)
(* and the two opening points the verifier gets from the grand-product     *)
(* verifier are the two the prover got from the grand-product prover.      *)
(***************************************************************************)
InLog(name) == \E i \in DOMAIN verifier.log : verifier.log[i] = name

C3_RoundTrip ==
    attack = "honest" =>
        /\ pc = "v_done" => verifier.result.kind = "ok"
        /\ InLog("read_write_grand_product") => verifier.r_read_write = prover.r_read_write
        /\ InLog("init_final_grand_product") => verifier.r_init_final = prover.r_init_final

\* A proof for two memories, unaltered, accepted; both opening points were drawn.
C3_Witness ==
    /\ attack = "honest"
    /\ pc = "v_done"
    /\ NumMemories(polys) = 2
    /\ verifier.result.kind = "ok"
    /\ Len(verifier.r_read_write) = LogN
    /\ verifier.r_init_final = prover.r_init_final

(***************************************************************************)
(* C4: the verifier applies to its transcript the operations the prover    *)
(* applied, in the same order: challenge gamma, challenge tau, protocol    *)
(* name, multiset hashes, read/write grand product, init/final grand       *)
(* product, read/write opening proof, init/final opening proof; for a      *)
(* proof as the prover made it the two transcripts are equal after every   *)
(* corresponding step.                                                     *)
(***************************************************************************)
StepOrder ==
    <<"gamma", "tau", "protocol_name", "multiset_hashes", "read_write_grand_product",
      "init_final_grand_product", "read_write_openings", "init_final_openings">>

Operations(transcript) == [i \in DOMAIN transcript |-> <<transcript[i].op, transcript[i].label>>]

After(party, k) == SubSeq(party.transcript, 1, party.steps[k].len)

C4_TranscriptsMirror ==
    /\ \A k \in 1..Len(prover.steps) : prover.steps[k].step = StepOrder[k]
    /\ \A k \in 1..Len(verifier.steps) :
         /\ verifier.steps[k].step = StepOrder[k]
         /\ Operations(After(verifier, k)) = Operations(After(prover, k))
         /\ attack = "honest" => After(verifier, k) = After(prover, k)

\* The verifier went through all eight steps on an unaltered proof.
C4_Witness ==
    /\ attack = "honest"
    /\ Len(verifier.steps) = Len(StepOrder)
    /\ Len(prover.steps) = Len(StepOrder)
    /\ verifier.transcript = prover.transcript

(***************************************************************************)
(* C5: verify_memory_checking returns success only if the claimed hashes   *)
(* satisfy the multiset-equality law for every memory, both opening proofs *)
(* verified against the commitments at the points the grand-product        *)
(* verifier returned, and every grand-product claim equals the fingerprint *)
(* recomputed from the opened tuple at the same interleaved position       *)
(* (claim 2i: read tuple i, claim 2i+1: write tuple i; likewise init and   *)
(* final), the claims being as many as the fingerprints in each group.     *)
(***************************************************************************)
ClaimsMatch(claims, first, second, gamma, tau) ==
    /\ Len(claims) = Len(first) + Len(second)
    /\ Len(first) = Len(second)
    /\ \A i \in 0..(Len(first) - 1) :
         /\ claims[2 * i + 1] = fingerprint(first[i + 1], gamma, tau)
         /\ claims[2 * i + 2] = fingerprint(second[i + 1], gamma, tau)

OpeningsHold ==
    /\ proof.read_write_openings
         = ReadWriteOpenings_open(commitments, verifier.r_read_write)
    /\ proof.init_final_openings
         = InitFinalOpenings_open(commitments, verifier.r_init_final)

C5_SuccessOnlyIfChecked ==
    verifier.result.kind = "ok" =>
        /\ WellFormedHashes(proof.multiset_hashes)
        /\ \A i \in 0..(Len(proof.multiset_hashes.read_hashes) - 1) :
             LawAt(proof.multiset_hashes, i)
        /\ OpeningsHold
        /\ ClaimsMatch(verifier.claims_read_write,
                       read_tuples(verifier.read_write_openings),
                       write_tuples(verifier.read_write_openings),
                       verifier.gamma, verifier.tau)
        /\ ClaimsMatch(verifier.claims_init_final,
                       init_tuples(verifier.init_final_openings),
                       final_tuples(verifier.init_final_openings),
                       verifier.gamma, verifier.tau)

\* A proof for two memories accepted: four claims in each group.
C5_Witness ==
    /\ verifier.result.kind = "ok"
    /\ Len(verifier.claims_read_write) = 4
    /\ Len(verifier.claims_init_final) = 4
    /\ Len(read_tuples(verifier.read_write_openings)) = 2

(***************************************************************************)
(* C6: when a fingerprint the verifier recomputes from the opened values   *)
(* differs from its grand-product claim, verify_memory_checking returns a  *)
(* typed verification error to its caller; it does not abort.              *)
(***************************************************************************)
FingerprintMismatch ==
    \/ ~ClaimsMatch(verifier.claims_read_write,
                    read_tuples(verifier.read_write_openings),
                    write_tuples(verifier.read_write_openings),
                    verifier.gamma, verifier.tau)
    \/ ~ClaimsMatch(verifier.claims_init_final,
                    init_tuples(verifier.init_final_openings),
                    final_tuples(verifier.init_final_openings),
                    verifier.gamma, verifier.tau)

C6_MismatchIsTypedError ==
    (pc = "v_done" /\ InLog("compute_verifier_openings") /\ FingerprintMismatch) =>
        verifier.result.kind = "err"

(***************************************************************************)
(* C7: aborting on an invariant violation is the prover's alone: whatever  *)
(* proof it is given, one whose hashes violate the multiset-equality law   *)
(* or have inconsistent lengths included, verify_memory_checking runs to   *)
(* completion and returns success or failure; it never aborts.             *)
(***************************************************************************)
C7_VerifierNeverAborts ==
    pc = "v_done" => verifier.result.kind \in {"ok", "err"}

(***************************************************************************)
(* C8: when the read/write opening proof fails to verify, the verifier     *)
(* returns that error at once: the init/final opening proof is not         *)
(* verified, no verifier opening is computed, no fingerprint compared;     *)
(* when the read/write proof passes and the init/final one fails, that     *)
(* error is returned before any fingerprint is compared. No opening-proof  *)
(* error becomes a success.                                                *)
(***************************************************************************)
ReadWriteOpeningFails ==
    proof.read_write_openings # ReadWriteOpenings_open(commitments, verifier.r_read_write)

InitFinalOpeningFails ==
    proof.init_final_openings # InitFinalOpenings_open(commitments, verifier.r_init_final)

C8_OpeningErrorsReturned ==
    /\ (InLog("read_write_openings") /\ ReadWriteOpeningFails) =>
         /\ pc = "v_done"
         /\ verifier.result = [kind |-> "err", at |-> "read_write_openings"]
         /\ ~InLog("init_final_openings")
         /\ ~InLog("compute_verifier_openings")
         /\ ~InLog("check_fingerprints")
    /\ (InLog("init_final_openings") /\ InitFinalOpeningFails) =>
         /\ pc = "v_done"
         /\ verifier.result = [kind |-> "err", at |-> "init_final_openings"]
         /\ ~InLog("compute_verifier_openings")
         /\ ~InLog("check_fingerprints")
    /\ verifier.result.kind = "err" =>
         \/ verifier.result.at = "read_write_openings" /\ ReadWriteOpeningFails
         \/ verifier.result.at = "init_final_openings" /\ InitFinalOpeningFails

\* An altered read/write opening: the call returned the error of the first proof.
C8_Witness ==
    /\ attack = "rw_opening"
    /\ pc = "v_done"
    /\ verifier.result = [kind |-> "err", at |-> "read_write_openings"]
    /\ verifier.log[Len(verifier.log)] = "read_write_openings"

(***************************************************************************)
(* C9: prover and verifier absorb the multiset hashes as four vectors of   *)
(* scalars in the order read, write, init, final, and all four before the  *)
(* first grand-product prove or verify call draws a challenge.             *)
(***************************************************************************)
IsGrandProductEntry(e) ==
    e.label \in {"grand product argument", "grand product challenge"}

HashesAt(transcript, i, h) ==
    /\ transcript[i] = [op |-> "append_scalars", label |-> "Read multiset hashes",
                        data |-> h.read_hashes]
    /\ transcript[i + 1] = [op |-> "append_scalars", label |-> "Write multiset hashes",
                            data |-> h.write_hashes]
    /\ transcript[i + 2] = [op |-> "append_scalars", label |-> "Init multiset hashes",
                            data |-> h.init_hashes]
    /\ transcript[i + 3] = [op |-> "append_scalars", label |-> "Final multiset hashes",
                            data |-> h.final_hashes]

HashesBoundFirst(transcript, h) ==
    \A j \in DOMAIN transcript :
        IsGrandProductEntry(transcript[j]) =>
            \E i \in 1..(j - 4) :
                /\ HashesAt(transcript, i, h)
                /\ \A k \in 1..(i + 3) : ~IsGrandProductEntry(transcript[k])

C9_HashesBoundFirst ==
    /\ HashesBoundFirst(prover.transcript, prover.multiset_hashes)
    /\ HashesBoundFirst(verifier.transcript, proof.multiset_hashes)

\* Both parties drew grand-product challenges, for two memories.
C9_Witness ==
    /\ NumMemories(polys) = 2
    /\ \E j \in DOMAIN prover.transcript : prover.transcript[j].label = "grand product challenge"
    /\ \E j \in DOMAIN verifier.transcript :
         verifier.transcript[j].label = "grand product challenge"

(***************************************************************************)
(* C10: the fingerprint of (a, v, t) is t*gamma^2 + v*gamma + a - tau in   *)
(* the field, and with flag Some(s) it is s*(t*gamma^2 + v*gamma + a -     *)
(* tau) + (1 - s), for all field values, the all-zero tuple included.      *)
(***************************************************************************)
Canonical(a, v, t, gamma, tau) == t * gamma * gamma + v * gamma + a - tau

C10_FingerprintFormula ==
    fp_out.done =>
        LET c == Canonical(fp_in.a, fp_in.v, fp_in.t, fp_in.gamma, fp_in.tau)
        IN  /\ fp_out.plain = c % P
            /\ fp_in.flag = None => fp_out.flagged = c % P
            /\ fp_in.flag # None =>
                 fp_out.flagged = (fp_in.flag[1] * c + (1 - fp_in.flag[1])) % P

\* The all-zero tuple under a flag other than 0 and 1 and non-zero challenges.
C10_Witness ==
    /\ fp_out.done
    /\ fp_in.a = 0 /\ fp_in.v = 0 /\ fp_in.t = 0
    /\ fp_in.flag = Some(2)
    /\ fp_in.gamma = 3 /\ fp_in.tau = 4
    /\ fp_out.plain = P - 4
    /\ fp_out.flagged = (2 * (P - 4) + P - 1) % P

(***************************************************************************)
(* C11: for all a, v, t, gamma, tau, the tuple with flag Some(0) has       *)
(* fingerprint 1 whatever a, v and t are, and the tuple with flag Some(1)  *)
(* has the fingerprint of (a, v, t) without a flag.                        *)
(***************************************************************************)
C11_FlagToggling ==
    fp_out.done =>
        /\ fp_in.flag = Some(FZero) => fp_out.flagged = FOne
        /\ fp_in.flag = Some(FOne) =>
             /\ fp_out.flagged = fp_out.plain
             /\ fp_out.flagged = fingerprint_flags(<<fp_in.a, fp_in.v, fp_in.t, None>>,
                                                   fp_in.gamma, fp_in.tau)

\* A flagged-off tuple whose unflagged fingerprint is not 1.
C11_Witness ==
    /\ fp_out.done
    /\ fp_in.flag = Some(FZero)
    /\ fp_in.a = 2 /\ fp_in.v = 1 /\ fp_in.t = 3
    /\ fp_out.plain # FOne
    /\ fp_out.flagged = FOne

(***************************************************************************)
(* C12: interleave_hashes puts the hashes side by side by index: position  *)
(* 2i of the read/write vector holds read_hashes[i] and position 2i+1      *)
(* write_hashes[i] for every memory i; position 2j of the init/final       *)
(* vector holds init_hashes[j] and position 2j+1 final_hashes[j] for every *)
(* table j, also when there are fewer init hashes than final hashes.       *)
(***************************************************************************)
C12_AdjacentByIndex ==
    flat_out # NoFlat =>
        /\ Len(hashes.read_hashes) = Len(hashes.write_hashes) =>
             /\ Len(flat_out[1]) = 2 * Len(hashes.read_hashes)
             /\ \A i \in 0..(Len(hashes.read_hashes) - 1) :
                  /\ flat_out[1][2 * i + 1] = hashes.read_hashes[i + 1]
                  /\ flat_out[1][2 * i + 2] = hashes.write_hashes[i + 1]
        /\ Len(hashes.init_hashes) <= Len(hashes.final_hashes) =>
             /\ Len(flat_out[2]) = Len(hashes.init_hashes) + Len(hashes.final_hashes)
             /\ \A j \in 0..(Len(hashes.init_hashes) - 1) :
                  /\ flat_out[2][2 * j + 1] = hashes.init_hashes[j + 1]
                  /\ flat_out[2][2 * j + 2] = hashes.final_hashes[j + 1]

\* Two memories over one table: one init hash, two final hashes.
C12_Witness ==
    /\ flat_out # NoFlat
    /\ hashes.read_hashes = <<0, 1>>
    /\ hashes.write_hashes = <<2, 0>>
    /\ hashes.init_hashes = <<1>>
    /\ hashes.final_hashes = <<2, 1>>
    /\ flat_out = <<<<0, 2, 1, 0>>, <<1, 2, 1>>>>

(***************************************************************************)
(* C13: the interleaved layout goes unchanged from prover to verifier: for *)
(* every M and T with M % T = 0, interleave_hashes of the hashes that      *)
(* uninterleave_hashes made of the prover's two root-product lists gives   *)
(* back those two lists, position for position.                            *)
(***************************************************************************)
C13_LayoutPreserved ==
    /\ ures # "none" => ures = "ok"
    /\ flat_out # NoFlat =>
         flat_out = <<flat_in.read_write_hashes, flat_in.init_final_hashes>>

(***************************************************************************)
(* C14: the MultisetHashes uninterleave_hashes assembles has read_hashes,  *)
(* write_hashes and final_hashes of length M and init_hashes of length     *)
(* M / C, the number of tables, for every M and every C >= 1 dividing M.   *)
(***************************************************************************)
C14_HashLengths ==
    ures # "none" =>
        /\ ures = "ok"
        /\ Len(hashes.read_hashes) = flat_in.M
        /\ Len(hashes.write_hashes) = flat_in.M
        /\ Len(hashes.final_hashes) = flat_in.M
        /\ Len(hashes.init_hashes) = flat_in.T

(***************************************************************************)
(* C15: from a proof as the prover made it, changing one opened value (an  *)
(* address, value or timestamp the verifier forms a tuple from) to another *)
(* field element makes verify_memory_checking fail, whatever gamma and tau *)
(* are.                                                                    *)
(***************************************************************************)
OneOpenedValueChanged ==
    LET Differences(o, h) == {<<f, i>> \in (DOMAIN o) \X (1..MaxMemories) :
                                 i <= Len(o[f]) /\ o[f][i] # h[f][i]}
    IN  Cardinality(Differences(proof.read_write_openings,
                                ReadWriteOpenings_open(polys, prover.r_read_write)))
        + Cardinality(Differences(proof.init_final_openings,
                                  InitFinalOpenings_open(polys, prover.r_init_final))) = 1

C15_OpenedValueTamper ==
    attack \in OpeningAttacks =>
        /\ OneOpenedValueChanged
        /\ proof.multiset_hashes = prover.multiset_hashes
        /\ pc = "v_done" => verifier.result.kind = "err"

\* A value opening changed while gamma is zero, where the fingerprints do not
\* depend on values and timestamps: the call failed all the same.
C15_Witness ==
    /\ attack = "rw_opening_v"
    /\ pc = "v_done"
    /\ verifier.gamma = FZero
    /\ verifier.result = [kind |-> "err", at |-> "read_write_openings"]

(***************************************************************************)
(* C16: from a proof as the prover made it, changing one entry of the      *)
(* claimed multiset hashes (of read_hashes, write_hashes, init_hashes or   *)
(* final_hashes) to another field element makes verify_memory_checking     *)
(* fail: it does not return success. The change is caught by               *)
(* check_multiset_equality when the law no longer holds and by the         *)
(* grand-product verifier otherwise.                                       *)
(***************************************************************************)
OneHashChanged ==
    LET h == proof.multiset_hashes
        g == prover.multiset_hashes
    IN  /\ \A f \in DOMAIN h : Len(h[f]) = Len(g[f])
        /\ Cardinality({<<f, i>> \in (DOMAIN h) \X (1..MaxMemories) :
                           i <= Len(h[f]) /\ h[f][i] # g[f][i]}) = 1

C16_HashTamper ==
    attack \in HashAttacks =>
        /\ OneHashChanged
        /\ pc = "v_done" =>
             /\ verifier.result.kind # "ok"
             /\ check_multiset_equality(proof.multiset_hashes) = "abort" =>
                  verifier.result = [kind |-> "abort", at |-> "check_multiset_equality"]
             /\ check_multiset_equality(proof.multiset_hashes) = "ok" =>
                  /\ verifier.result.kind = "abort"
                  /\ verifier.result.at \in {"read_write_grand_product",
                                             "init_final_grand_product"}

\* A changed final hash that still satisfies the law, caught by the grand product.
C16_Witness ==
    /\ attack \in HashAttacks
    /\ pc = "v_done"
    /\ check_multiset_equality(proof.multiset_hashes) = "ok"
    /\ verifier.result.kind = "abort"

(***************************************************************************)
(* C17: in the flagged read_write_grand_product a lookup whose flag is 0   *)
(* contributes 1 to the read and to the write hash of its memory: each     *)
(* hash is the product of the fingerprints at the positions whose flag is  *)
(* not zero; two witnesses that differ only in address, value or timestamp *)
(* of flagged-off positions have the same read and write hashes; and the   *)
(* multiset law holds with the flagged-off lookups left out of the final   *)
(* timestamps.                                                             *)
(***************************************************************************)
RECURSIVE ProductWhereOn(_, _)
ProductWhereOn(leaves, flags) ==
    IF leaves = <<>> THEN FOne
    ELSE IF Head(flags) # FZero
         THEN FMul(Head(leaves), ProductWhereOn(Tail(leaves), Tail(flags)))
         ELSE ProductWhereOn(Tail(leaves), Tail(flags))

C17_FlaggedOffIsIdentity ==
    flag_out.done =>
        LET w == flag_in.polys
            h == flag_out.hashes
        IN  \A m \in 1..NumMemories(w) :
               /\ h.read_hashes[m]
                    = ProductWhereOn(Leaves(ReadTuples(w, m), flag_in.gamma, flag_in.tau),
                                     w.flags[m])
               /\ h.write_hashes[m]
                    = ProductWhereOn(Leaves(WriteTuples(w, m), flag_in.gamma, flag_in.tau),
                                     w.flags[m])
               /\ flag_out.other.read_hashes[m] = h.read_hashes[m]
               /\ flag_out.other.write_hashes[m] = h.write_hashes[m]
               /\ FMul(h.init_hashes[m], h.write_hashes[m])
                    = FMul(h.final_hashes[m], h.read_hashes[m])

\* The second lookup is flagged off; what it carries differs between the two
\* witnesses and would have changed both hashes had it counted.
C17_Witness ==
    /\ flag_out.done
    /\ flag_in.polys.flags = <<<<FOne, FZero>>>>
    /\ flag_in.polys.a_ops[1][2] # flag_in.other.a_ops[1][2]
    /\ flag_in.polys.t_reads[1][2] # flag_in.other.t_reads[1][2]
    /\ fingerprint(ReadTuples(flag_in.polys, 1)[2], flag_in.gamma, flag_in.tau)
         \notin {FZero, FOne}
    /\ flag_out.hashes.read_hashes[1]
         = fingerprint(ReadTuples(flag_in.polys, 1)[1], flag_in.gamma, flag_in.tau)
    /\ flag_out.hashes.read_hashes[1] # FZero

StructuralMismatch(h) ==
    \/ Len(h.write_hashes) # Len(h.read_hashes)
    \/ Len(h.final_hashes) # Len(h.read_hashes)
    \/ ~ \E k \in 0..Len(h.read_hashes) : k * Len(h.init_hashes) = Len(h.read_hashes)

C19_StructuralMismatchFatal ==
    (hres # "none" /\ StructuralMismatch(hashes)) =>
        /\ hres = "abort"
        /\ ~compared

\* The check has aborted on vectors whose lengths disagree although every
\* product of the positions present on both sides satisfies the law.
C19_Witness ==
    /\ hres = "abort"
    /\ ~compared
    /\ Len(hashes.read_hashes) = 1
    /\ Len(hashes.write_hashes) = 1
    /\ Len(hashes.init_hashes) = 1
    /\ Len(hashes.final_hashes) = 2
    /\ FMul(hashes.init_hashes[1], hashes.write_hashes[1])
         = FMul(hashes.final_hashes[1], hashes.read_hashes[1])

(***************************************************************************)
(* C20: within one prove call and within one verify call gamma and tau are *)
(* each drawn from the transcript exactly once, and that pair is the one   *)
(* in every fingerprint of the call: every leaf compute_leaves makes for   *)
(* the prover, and every read, write, init and final fingerprint that      *)
(* check_fingerprints compares with a claim for the verifier.              *)
(***************************************************************************)
Draws(transcript, label) ==
    {k \in 1..Len(transcript) :
        transcript[k].op = "challenge_scalar" /\ transcript[k].label = label}

DrawnValue(transcript, label) ==
    TranscriptDigest(SubSeq(transcript, 1, CHOOSE k \in Draws(transcript, label) : TRUE))

C20_ProverLeaves ==
    LET gamma == DrawnValue(prover.transcript, "Memory checking gamma")
        tau == DrawnValue(prover.transcript, "Memory checking tau")
    IN  /\ Len(prover.read_write_circuit) = 2 * NumMemories(polys)
        /\ Len(prover.init_final_circuit) = 2 * NumMemories(polys)
        /\ \A m \in 1..NumMemories(polys) :
             /\ \A j \in 1..Len(polys.a_ops[m]) :
                  /\ prover.read_write_circuit[2 * m - 1][j]
                       = fingerprint(ReadTuples(polys, m)[j], gamma, tau)
                  /\ prover.read_write_circuit[2 * m][j]
                       = fingerprint(WriteTuples(polys, m)[j], gamma, tau)
             /\ \A j \in 1..Len(InitTuples(polys, m)) :
                  /\ prover.init_final_circuit[2 * m - 1][j]
                       = fingerprint(InitTuples(polys, m)[j], gamma, tau)
                  /\ prover.init_final_circuit[2 * m][j]
                       = fingerprint(FinalTuples(polys, m)[j], gamma, tau)

C20_VerifierFingerprints ==
    LET gamma == DrawnValue(verifier.transcript, "Memory checking gamma")
        tau == DrawnValue(verifier.transcript, "Memory checking tau")
        rw == verifier.read_write_openings
        if == verifier.init_final_openings
        M == Len(rw.a_ops)
    IN  /\ Len(verifier.claims_read_write) = 2 * M
        /\ Len(verifier.claims_init_final) = 2 * Len(if.t_finals)
        /\ \A m \in 1..M :
             /\ verifier.claims_read_write[2 * m - 1]
                  = fingerprint(read_tuples(rw)[m], gamma, tau)
             /\ verifier.claims_read_write[2 * m]
                  = fingerprint(write_tuples(rw)[m], gamma, tau)
        /\ \A m \in 1..Len(if.t_finals) :
             /\ verifier.claims_init_final[2 * m - 1]
                  = fingerprint(init_tuples(if)[m], gamma, tau)
             /\ verifier.claims_init_final[2 * m]
                  = fingerprint(final_tuples(if)[m], gamma, tau)

C20_OnePairPerCall ==
    /\ Cardinality(Draws(prover.transcript, "Memory checking gamma"))
         = IF pc = "p_gamma" THEN 0 ELSE 1
    /\ Cardinality(Draws(prover.transcript, "Memory checking tau"))
         = IF pc \in {"p_gamma", "p_tau"} THEN 0 ELSE 1
    /\ Cardinality(Draws(verifier.transcript, "Memory checking gamma"))
         = IF attack = "none" \/ pc = "v_gamma" THEN 0 ELSE 1
    /\ Cardinality(Draws(verifier.transcript, "Memory checking tau"))
         = IF attack = "none" \/ pc \in {"v_gamma", "v_tau"} THEN 0 ELSE 1
    /\ pc \notin {"p_gamma", "p_tau"} =>
         /\ prover.gamma = DrawnValue(prover.transcript, "Memory checking gamma")
         /\ prover.tau = DrawnValue(prover.transcript, "Memory checking tau")
    /\ pc \notin {"p_gamma", "p_tau", "p_protocol_name", "p_compute_leaves"} =>
         C20_ProverLeaves
    /\ (pc = "v_done" /\ verifier.result.at = "check_fingerprints") =>
         (verifier.result.kind = "ok" <=> C20_VerifierFingerprints)

\* A verify call has compared the claims of two memories with fingerprints
\* under a pair gamma # tau, after a prove call that made leaves under its pair.
C20_Witness ==
    /\ pc = "v_done"
    /\ verifier.result = [kind |-> "ok", at |-> "check_fingerprints"]
    /\ verifier.gamma # verifier.tau
    /\ Len(verifier.claims_read_write) = 4
    /\ C20_VerifierFingerprints
    /\ C20_ProverLeaves

(***************************************************************************)
(* C21: on the prover side the multiset-equality check runs before the     *)
(* hashes are bound: when the prover's own hashes violate the law,         *)
(* prove_grand_products aborts before any hash is appended to the          *)
(* transcript, before either grand-product argument is produced and before *)
(* any opening proof is requested, so no proof is returned for a witness   *)
(* whose hashes violate the law.                                           *)
(***************************************************************************)
ProverHashesAssembled ==
    pc \notin {"p_gamma", "p_tau", "p_protocol_name", "p_compute_leaves", "p_uninterleave"}

ProverBoundNothing ==
    /\ \A k \in 1..Len(prover.transcript) : prover.transcript[k].op # "append_scalars"
    /\ \A k \in 1..Len(prover.steps) :
         prover.steps[k].step \in {"gamma", "tau", "protocol_name"}
    /\ prover.read_write_grand_product = <<>>
    /\ prover.init_final_grand_product = <<>>
    /\ prover.r_read_write = <<>>
    /\ prover.r_init_final = <<>>
    /\ prover.read_write_openings = NoOpeningsRW
    /\ proof = NoProof

C21_CheckBeforeBinding ==
    (ProverHashesAssembled /\ check_multiset_equality(prover.multiset_hashes) = "abort") =>
        /\ pc \in {"p_check", "p_abort"}
        /\ ProverBoundNothing

\* The prover has aborted on hashes that violate the law.
C21_Witness ==
    /\ pc = "p_abort"
    /\ check_multiset_equality(prover.multiset_hashes) = "abort"
    /\ Len(prover.multiset_hashes.read_hashes) = 2
    /\ ProverBoundNothing

(***************************************************************************)
(* C22: the default read_write_grand_product and init_final_grand_product  *)
(* build exactly one circuit per input leaf vector and return one hash per *)
(* leaf vector, in input order: the k-th hash is the product of all the    *)
(* elements of the k-th leaf vector and of nothing else, and the batched   *)
(* circuit holds the circuits in that same order.                          *)
(***************************************************************************)
RECURSIVE ElementsProduct(_, _)
ElementsProduct(v, n) ==
    IF n = 0 THEN 1 ELSE (ElementsProduct(v, n - 1) * v[n]) % P

C22_OneCircuitPerLeafVector ==
    gp_out.done =>
        /\ Len(gp_out.circuits) = Len(gp_in.leaves)
        /\ Len(gp_out.hashes) = Len(gp_in.leaves)
        /\ \A k \in 1..Len(gp_in.leaves) :
             /\ gp_out.circuits[k] = gp_in.leaves[k]
             /\ gp_out.hashes[k] = ElementsProduct(gp_in.leaves[k], Len(gp_in.leaves[k]))
        /\ grand_product(gp_in.leaves).circuits = gp_out.circuits
        /\ grand_product(gp_in.leaves).hashes = gp_out.hashes

\* A grand product of two leaf vectors with different products has returned.
C22_Witness ==
    /\ gp_out.done
    /\ gp_in.leaves = <<<<2, 2>>, <<2>>>>
    /\ gp_out.hashes = <<4, 2>>
    /\ gp_out.circuits = <<<<2, 2>>, <<2>>>>

(***************************************************************************)
(* C23: the circuits are built and evaluated by independent parallel       *)
(* tasks, one per leaf vector, and for every interleaving and completion   *)
(* order of the tasks the collected circuit list and hash list are the     *)
(* same position-ordered sequences: entry k belongs to leaf vector k. A    *)
(* task writes the entry of its own leaf vector only, from the entry of    *)
(* its own leaf vector only.                                               *)
(***************************************************************************)
C23_PositionOrdered ==
    /\ \A k \in 1..Len(gp_circuits) :
         gp_circuits[k] # None => gp_circuits[k] = Some(gp_in.leaves[k])
    /\ \A k \in 1..Len(gp_hashes) :
         gp_hashes[k] # None =>
             gp_hashes[k] = Some(ElementsProduct(gp_in.leaves[k], Len(gp_in.leaves[k])))
    /\ gp_out.done =>
         /\ gp_out.circuits = gp_in.leaves
         /\ gp_out.hashes = [k \in 1..Len(gp_in.leaves) |->
                                ElementsProduct(gp_in.leaves[k], Len(gp_in.leaves[k]))]

C23_OwnEntryOnly ==
    \/ /\ gp_out' # gp_out
       /\ UNCHANGED <<gp_in, gp_circuits, gp_hashes>>
    \/ \E k \in 1..Len(gp_in.leaves) :
         /\ gp_in' = gp_in
         /\ gp_out' = gp_out
         /\ \/ /\ gp_hashes' = gp_hashes
               /\ gp_circuits' = [gp_circuits EXCEPT ![k] = Some(gp_in.leaves[k])]
            \/ /\ gp_circuits' = gp_circuits
               /\ gp_hashes' = [gp_hashes EXCEPT ![k] = Some(Product(gp_circuits[k][1]))]

C23_OrderIndependent ==
    [](C23_PositionOrdered) /\ [][C23_OwnEntryOnly]_vars

\* The tasks of the second leaf vector completed before those of the first,
\* and the lists returned are in the order of the leaf vectors.
C23_Witness ==
    /\ gp_out.done
    /\ gp_order = <<<<"new", 2>>, <<"new", 1>>, <<"evaluate", 2>>, <<"evaluate", 1>>>>
    /\ gp_in.leaves = <<<<2, 2>>, <<2>>>>
    /\ gp_out.hashes = <<4, 2>>
    /\ gp_out.circuits = gp_in.leaves

(***************************************************************************)
(* C24: fingerprint collisions are bounded: over the prime field F, for    *)
(* two distinct tuples (a1, v1, t1) # (a2, v2, t2) the fingerprints are    *)
(* equal for at most 3 * |F| of the pairs (gamma, tau) in F x F;           *)
(* equivalently, for at most 3 values of gamma, and whether they are equal *)
(* does not depend on tau.                                                 *)
(***************************************************************************)
CollidingGammas == {c[1] : c \in col_out.pairs}

C24_CollisionsBounded ==
    (col_out.done /\ col_in[1] # col_in[2]) =>
        /\ Cardinality(col_out.pairs) <= 3 * Cardinality(F)
        /\ Cardinality(CollidingGammas) <= 3
        /\ col_out.pairs = CollidingGammas \X F

\* Two distinct tuples whose fingerprints agree for two values of gamma, the
\* roots of gamma^2 - gamma, and every tau.
C24_Witness ==
    /\ col_out.done
    /\ col_in[1] = <<0, 0, 1>>
    /\ col_in[2] = <<0, 1, 0>>
    /\ CollidingGammas = {0, 1}
    /\ Cardinality(col_out.pairs) = 2 * Cardinality(F)

(***************************************************************************)
(* C25: gamma and tau depend only on the state of the transcript at entry  *)
(* to the call: prover and verifier draw them before the protocol name and *)
(* before the multiset hashes are absorbed, so calls started from the same *)
(* transcript state use the same gamma and tau whatever hashes the proof   *)
(* claims.                                                                 *)
(***************************************************************************)
EntryChallenges(transcript) ==
    LET gamma == challenge_scalar(SubSeq(transcript, 1, 1), "Memory checking gamma")
        tau == challenge_scalar(gamma.transcript, "Memory checking tau")
    IN  <<gamma.value, tau.value>>

DrawnBeforeAbsorbing(transcript) ==
    \A k \in 1..Len(transcript) :
        transcript[k].op \in {"append_protocol_name", "append_scalars"} =>
            /\ \E j \in 1..(k - 1) : j \in Draws(transcript, "Memory checking gamma")
            /\ \E j \in 1..(k - 1) : j \in Draws(transcript, "Memory checking tau")
            /\ \A j \in Draws(transcript, "Memory checking gamma") : j < k
            /\ \A j \in Draws(transcript, "Memory checking tau") : j < k

C25_ChallengesFromEntryState ==
    /\ DrawnBeforeAbsorbing(prover.transcript)
    /\ DrawnBeforeAbsorbing(verifier.transcript)
    /\ pc \notin {"p_gamma", "p_tau"} =>
         <<prover.gamma, prover.tau>> = EntryChallenges(prover.transcript)
    /\ (attack # "none" /\ pc \notin {"v_gamma", "v_tau"}) =>
         /\ <<verifier.gamma, verifier.tau>> = EntryChallenges(verifier.transcript)
         /\ verifier.transcript[1] = prover.transcript[1] =>
              /\ verifier.gamma = prover.gamma
              /\ verifier.tau = prover.tau

\* A verify call on a proof that claims other hashes than the prover bound has
\* absorbed them after drawing the challenges the prover drew.
C25_Witness ==
    /\ attack \in HashAttacks
    /\ proof.multiset_hashes # prover.multiset_hashes
    /\ \E k \in 1..Len(verifier.transcript) :
         /\ verifier.transcript[k].op = "append_scalars"
         /\ verifier.transcript[k] \notin {prover.transcript[j] : j \in 1..Len(prover.transcript)}
    /\ verifier.transcript[1] = prover.transcript[1]
    /\ verifier.gamma = prover.gamma
    /\ verifier.tau = prover.tau

(***************************************************************************)
(* C26: uninterleave_hashes either aborts or returns four lists that all   *)
(* have length len(read_write_hashes) / 2: it aborts when                  *)
(* read_write_hashes has odd length or init_final_hashes has fewer entries *)
(* than read_write_hashes, and the entries of init_final_hashes from       *)
(* position len(read_write_hashes) on are dropped without a failure.       *)
(***************************************************************************)
C26_UninterleaveLengths ==
    ures # "none" =>
        LET rw == flat_in.read_write_hashes
            if == flat_in.init_final_hashes
            n == Len(rw) \div 2
        IN  /\ ures \in {"ok", "abort"}
            /\ ures = "abort" <=> (Len(rw) % 2 = 1 \/ Len(if) < Len(rw))
            /\ ures = "ok" =>
                 /\ Len(hashes.read_hashes) = n
                 /\ Len(hashes.write_hashes) = n
                 /\ Len(hashes.init_hashes) = n
                 /\ Len(hashes.final_hashes) = n
                 /\ 2 * n = Len(rw)
                 /\ \A i \in 1..n :
                      /\ hashes.read_hashes[i] = rw[2 * i - 1]
                      /\ hashes.write_hashes[i] = rw[2 * i]
                      /\ hashes.init_hashes[i] = if[2 * i - 1]
                      /\ hashes.final_hashes[i] = if[2 * i]

\* uninterleave_hashes has returned on an init/final list with an entry too many.
C26_Witness ==
    /\ ures = "ok"
    /\ flat_in.read_write_hashes = <<0, 1>>
    /\ flat_in.init_final_hashes = <<1, 2, 2>>
    /\ hashes = MultisetHashes(<<0>>, <<1>>, <<1>>, <<2>>)

(***************************************************************************)
(* C27: MULInstruction::lookup_entry returns the low WORD_SIZE bits of the *)
(* product of the two operands as an unsigned value: for WORD_SIZE = 32 it *)
(* is ((x mod 2^32) * (y mod 2^32)) mod 2^32, for WORD_SIZE = 64 it is     *)
(* (x * y) mod 2^64, for all 64-bit operands and without an overflow       *)
(* failure; for any other WORD_SIZE it aborts. (2^32 and 2^64 are the      *)
(* sizes of the narrow and of the wide word of the model.)                 *)
(***************************************************************************)
C27_LowBitsOfProduct ==
    mul_out.status # "none" =>
        /\ mul_in.WORD_SIZE = 32 =>
             /\ mul_out.status = "ok"
             /\ mul_out.value
                  = ((mul_in.x % Pow2(Bits32)) * (mul_in.y % Pow2(Bits32))) % Pow2(Bits32)
        /\ mul_in.WORD_SIZE = 64 =>
             /\ mul_out.status = "ok"
             /\ mul_out.value = (mul_in.x * mul_in.y) % Pow2(Bits64)
        /\ mul_in.WORD_SIZE \notin {32, 64} => mul_out.status = "abort"

\* A 32-bit multiplication of operands with high bits set whose product, as
\* signed narrow words, is negative.
C27_Witness ==
    /\ mul_out.status = "ok"
    /\ mul_in.WORD_SIZE = 32
    /\ mul_in.x = Pow2(Bits64) - 1
    /\ mul_in.y = Pow2(Bits32) + 1
    /\ mul_out.value = Pow2(Bits32) - 1

(***************************************************************************)
(* C28: ZeromorphSRS::setup aborts whenever it is called without a seed    *)
(* (tau = None), so the lazily initialised ZEROMORPHSRS, whose initialiser *)
(* calls setup(None), is never initialised: every first access to it       *)
(* aborts instead of yielding an SRS. With a seed, only its first 32 bytes *)
(* (SeedLen in the model), zero-padded when shorter, determine the result. *)
(***************************************************************************)
ByteAt(seed, i) == IF i <= Len(seed) THEN seed[i] ELSE 0

====
